---------------------------- MODULE Spec2Model ----------------------------
(***************************************************************************)
(* OpenKlavdii: a chat front end that brokers coding requests to the       *)
(* external `opencode` agent.  The module models                           *)
(*   - core/session_manager.py  (SessionManager: sessions, active pointer, *)
(*     preferences),                                                       *)
(*   - core/opencode_proxy.py   (OpenCodeProxy: generate_code and the CLI  *)
(*     send pipeline _send_message_via_cli with its stdout reader),        *)
(*   - bot/handlers/coding.py   (the generation handlers that call it).    *)
(***************************************************************************)
EXTENDS Integers, Sequences, FiniteSets, TLC

(***************************************************************************)
(* Bounds of the model.                                                    *)
(***************************************************************************)
NumSessionIds == 3
MaxLines == 3
MaxErrLines == 1
MaxBotLines == 1
MaxBotSessions == 1
MaxCwdDepth == 0
MaxWrites == 4

Users == {"u1", "u2"}
\* the values uuid.uuid4() can produce in the model
SessionIds == 1..NumSessionIds

None == "None"
EmptyMap == [x \in {} |-> None]

(***************************************************************************)
(* The provider catalog the agent reports at /provider.                    *)
(***************************************************************************)
ProviderP1 == [id |-> "p1", models |-> <<"m1", "m2">>]
ProviderP2 == [id |-> "p2", models |-> <<>>]
EmptyCatalog == [all |-> <<>>, connected |-> <<>>]
Catalogs ==
    { EmptyCatalog,
      [all |-> <<ProviderP1, ProviderP2>>, connected |-> <<"p1">>],
      [all |-> <<ProviderP1, ProviderP2>>, connected |-> <<"p2", "p1">>],
      [all |-> <<ProviderP1>>, connected |-> <<"p2">>] }

ProviderIds == {"p1", "p2", "p9"}
ModelIds == {"m1", "m9"}

VARIABLES
    sessions,           \* SessionManager.sessions: user -> (session id -> record)
    active_sessions,    \* SessionManager.active_sessions: user -> session id
    user_preferences,   \* SessionManager.user_preferences: user -> dict
    catalog,            \* what the agent's provider endpoint answers now
    cwd,                \* the process working directory (a path)
    dirs,               \* directories that exist on disk (absolute paths)
    ret,                \* the last store operation and the value it returned
    created             \* identifiers returned by create_session, in order

storeVars == <<sessions, active_sessions, user_preferences, catalog, cwd,
               dirs, ret, created>>

(***************************************************************************)
(* Paths are sequences of names; the process starts in Root.               *)
(***************************************************************************)
Root == <<>>

RECURSIVE Prefixes(_)
Prefixes(p) == IF p = <<>> THEN {<<>>}
               ELSE {p} \cup Prefixes(SubSeq(p, 1, Len(p) - 1))

\* Path("work_place/<id>"), a path relative to the working directory
SessionFolderPath(sid) == <<"work_place", sid>>

\* Path.mkdir(parents=True, exist_ok=True) of a relative path
Mkdir(rel) == dirs \cup Prefixes(cwd \o rel)

(***************************************************************************)
(* OpenCodeProxy.get_providers / get_default_provider                      *)
(***************************************************************************)
get_providers == catalog

\* mutant of FirstModelOf: the first model of the first provider listed
FirstModelOfFirstProvider(all, pid) ==
    IF all = <<>> THEN ""
    ELSE IF Head(all).models = <<>> THEN "" ELSE Head(Head(all).models)

RECURSIVE FirstModelOf(_, _)
FirstModelOf(all, pid) ==
    IF all = <<>> THEN ""
    ELSE IF Head(all).id = pid
         THEN (IF Head(all).models = <<>> THEN "" ELSE Head(Head(all).models))
         ELSE FirstModelOf(Tail(all), pid)

get_default_provider ==
    LET providers_data == get_providers
        connected == providers_data.connected
    IN IF connected = <<>>
       THEN [provider_id |-> "", model_id |-> ""]
       ELSE [provider_id |-> Head(connected),
             model_id |-> FirstModelOf(providers_data.all, Head(connected))]

(***************************************************************************)
(* SessionManager                                                          *)
(***************************************************************************)
\* every identifier recorded under some user
RecordedIds == UNION {DOMAIN sessions[u] : u \in DOMAIN sessions}

\* mutant of uuid4: a value that may have been produced before
uuid4Repeating == SessionIds

\* uuid.uuid4(): a value never produced before
uuid4 == SessionIds \ RecordedIds

SessionRecord(sid) == [id |-> sid, folder |-> SessionFolderPath(sid)]

create_session(user_id) ==
    \E session_id \in uuid4 :
        /\ dirs' = Mkdir(SessionFolderPath(session_id))
        /\ sessions' =
              LET mine == IF user_id \in DOMAIN sessions
                          THEN sessions[user_id] ELSE EmptyMap
              IN (user_id :> ((session_id :> SessionRecord(session_id)) @@ mine))
                    @@ sessions
        /\ active_sessions' = (user_id :> session_id) @@ active_sessions
        /\ created' = Append(created, session_id)
        /\ ret' = [op |-> "create_session", user |-> user_id,
                   arg |-> None, value |-> session_id]
        /\ UNCHANGED <<user_preferences, catalog, cwd>>

\* get_active_session(user_id) finds a session record (does not return None)
HasActiveSession(user_id) ==
    /\ user_id \in DOMAIN active_sessions
    /\ user_id \in DOMAIN sessions
    /\ active_sessions[user_id] \in DOMAIN sessions[user_id]

\* the value get_active_session(user_id) returns in the current state
ActiveSessionOf(user_id) ==
    IF HasActiveSession(user_id)
    THEN sessions[user_id][active_sessions[user_id]]
    ELSE None

get_active_session(user_id) ==
    /\ ret' = [op |-> "get_active_session", user |-> user_id,
               arg |-> None, value |-> ActiveSessionOf(user_id)]
    /\ UNCHANGED <<sessions, active_sessions, user_preferences, catalog,
                   cwd, dirs, created>>

\* mutant of SessionsOf: the sessions of every user
SessionsOfAnyUser(user_id) ==
    UNION {{sessions[u][s] : s \in DOMAIN sessions[u]} : u \in DOMAIN sessions}

\* the value list_user_sessions(user_id) returns (as a set of records)
SessionsOf(user_id) ==
    IF user_id \notin DOMAIN sessions THEN {}
    ELSE {sessions[user_id][s] : s \in DOMAIN sessions[user_id]}

list_user_sessions(user_id) ==
    /\ ret' = [op |-> "list_user_sessions", user |-> user_id,
               arg |-> None, value |-> SessionsOf(user_id)]
    /\ UNCHANGED <<sessions, active_sessions, user_preferences, catalog,
                   cwd, dirs, created>>

\* mutants of the membership test of switch_session
SwitchGuardAnyUser(user_id, session_id) == session_id \in RecordedIds

SwitchGuardPointerSet(user_id, session_id) == user_id \in DOMAIN sessions

SwitchGuard(user_id, session_id) ==
    user_id \in DOMAIN sessions /\ session_id \in DOMAIN sessions[user_id]

switch_session(user_id, session_id) ==
    /\ IF SwitchGuard(user_id, session_id)
       THEN /\ active_sessions' = (user_id :> session_id) @@ active_sessions
            /\ ret' = [op |-> "switch_session", user |-> user_id,
                       arg |-> session_id, value |-> TRUE]
       ELSE /\ UNCHANGED active_sessions
            /\ ret' = [op |-> "switch_session", user |-> user_id,
                       arg |-> session_id, value |-> FALSE]
    /\ UNCHANGED <<sessions, user_preferences, catalog, cwd, dirs, created>>

\* a preference dict: the keys it has, and the values under them
NoPrefs == [keys |-> {}, provider_id |-> "", model_id |-> "",
            show_thinking |-> TRUE]

PrefsOf(user_id) ==
    IF user_id \in DOMAIN user_preferences
    THEN user_preferences[user_id] ELSE NoPrefs

\* mutant of set_user_preference: it stops between its two writes
set_user_preference_torn(user_id, provider_id, model_id) ==
    /\ user_preferences' =
          (user_id :> [PrefsOf(user_id) EXCEPT
                          !.keys = @ \cup {"provider_id"},
                          !.provider_id = provider_id]) @@ user_preferences
    /\ ret' = [op |-> "set_user_preference", user |-> user_id,
               arg |-> <<provider_id, model_id>>, value |-> None]
    /\ UNCHANGED <<sessions, active_sessions, catalog, cwd, dirs, created>>

set_user_preference(user_id, provider_id, model_id) ==
    /\ user_preferences' =
          (user_id :> [PrefsOf(user_id) EXCEPT
                          !.keys = @ \cup {"provider_id", "model_id"},
                          !.provider_id = provider_id,
                          !.model_id = model_id]) @@ user_preferences
    /\ ret' = [op |-> "set_user_preference", user |-> user_id,
               arg |-> <<provider_id, model_id>>, value |-> None]
    /\ UNCHANGED <<sessions, active_sessions, catalog, cwd, dirs, created>>

\* the dict get_user_preference(user_id) returns: the keys it has and,
\* for a missing key, "" (what callers read with .get(key, ""))
UserPreferenceOf(user_id) ==
    IF user_id \notin DOMAIN user_preferences
    THEN [keys |-> {"provider_id", "model_id"}] @@ get_default_provider
    ELSE LET prefs == user_preferences[user_id]
         IN [keys |-> prefs.keys \cap {"provider_id", "model_id"},
             provider_id |-> IF "provider_id" \in prefs.keys
                             THEN prefs.provider_id ELSE "",
             model_id |-> IF "model_id" \in prefs.keys
                          THEN prefs.model_id ELSE ""]

\* mutant of get_user_preference: the default it falls back to is stored
get_user_preference_stored(user_id) ==
    /\ ret' = [op |-> "get_user_preference", user |-> user_id,
               arg |-> None, value |-> UserPreferenceOf(user_id)]
    /\ user_preferences' =
          IF user_id \in DOMAIN user_preferences THEN user_preferences
          ELSE (user_id :> [NoPrefs EXCEPT
                              !.keys = {"provider_id", "model_id"},
                              !.provider_id = get_default_provider.provider_id,
                              !.model_id = get_default_provider.model_id])
               @@ user_preferences
    /\ UNCHANGED <<sessions, active_sessions, catalog, cwd, dirs, created>>

get_user_preference(user_id) ==
    /\ ret' = [op |-> "get_user_preference", user |-> user_id,
               arg |-> None, value |-> UserPreferenceOf(user_id)]
    /\ UNCHANGED <<sessions, active_sessions, user_preferences, catalog,
                   cwd, dirs, created>>

set_thinking_preference(user_id, enabled) ==
    /\ user_preferences' =
          (user_id :> [PrefsOf(user_id) EXCEPT
                          !.keys = @ \cup {"show_thinking"},
                          !.show_thinking = enabled]) @@ user_preferences
    /\ ret' = [op |-> "set_thinking_preference", user |-> user_id,
               arg |-> enabled, value |-> None]
    /\ UNCHANGED <<sessions, active_sessions, catalog, cwd, dirs, created>>

ThinkingPreferenceOf(user_id) ==
    IF user_id \notin DOMAIN user_preferences THEN TRUE
    ELSE IF "show_thinking" \in user_preferences[user_id].keys
         THEN user_preferences[user_id].show_thinking ELSE TRUE

get_thinking_preference(user_id) ==
    /\ ret' = [op |-> "get_thinking_preference", user |-> user_id,
               arg |-> None, value |-> ThinkingPreferenceOf(user_id)]
    /\ UNCHANGED <<sessions, active_sessions, user_preferences, catalog,
                   cwd, dirs, created>>

\* a caller awaits opencode_client.get_default_provider()
call_get_default_provider ==
    /\ ret' = [op |-> "get_default_provider", user |-> None,
               arg |-> get_providers, value |-> get_default_provider]
    /\ UNCHANGED <<sessions, active_sessions, user_preferences, catalog,
                   cwd, dirs, created>>

\* the agent's catalog changes behind the bot's back
CatalogChange ==
    /\ \E c \in Catalogs : c # catalog /\ catalog' = c
    /\ UNCHANGED <<sessions, active_sessions, user_preferences, cwd, dirs,
                   ret, created>>

InitStore ==
    /\ sessions = EmptyMap
    /\ active_sessions = EmptyMap
    /\ user_preferences = EmptyMap
    /\ catalog = EmptyCatalog
    /\ cwd = Root
    /\ dirs = {Root}
    /\ ret = [op |-> "init", user |-> None, arg |-> None, value |-> None]
    /\ created = <<>>

(***************************************************************************)
(* OpenCodeProxy: the task operations and the CLI send pipeline.           *)
(* A task is one call of generate_code / debug_code / refactor_code in     *)
(* flight, with the opencode child it launched.                            *)
(***************************************************************************)
Tasks == {"t1", "t2"}

Absent == "<absent>"
NoPath == <<"<none>">>

\* One line of the child's standard output.  kind: "blank" (whitespace),
\* "garbage" (not JSON), "json_value" (valid JSON that is not an object) or
\* "object".  For an object: its "type", its top-level "text", and its
\* "part": Absent, "dict" (with part_text its "text" or Absent) or "number".
StdoutLine(kind, type, text, part, part_text) ==
    [kind |-> kind, type |-> type, text |-> text, part |-> part,
     part_text |-> part_text]

BlankLine == StdoutLine("blank", Absent, Absent, Absent, Absent)
GarbageLine == StdoutLine("garbage", Absent, Absent, Absent, Absent)
JsonValueLine == StdoutLine("json_value", Absent, Absent, Absent, Absent)
ThinkingLine == StdoutLine("object", "thinking", "a", Absent, Absent)
ReasoningLine == StdoutLine("object", "reasoning", Absent, "dict", "b")
StepStartLine == StdoutLine("object", "step_start", Absent, "dict", Absent)
TextLine == StdoutLine("object", "text", Absent, "dict", "c")
\* a text that holds one fenced code block, whose content is "d"
FencedText == "x <fence>d<fence> y"
FencedTextLine == StdoutLine("object", "text", Absent, "dict", FencedText)

StdoutLines == {BlankLine, GarbageLine, JsonValueLine, ThinkingLine,
                ReasoningLine, StepStartLine, TextLine, FencedTextLine}
StderrLines == {"boom"}

\* the arguments of a call: which task operation, provider/model, and the
\* thinking callback ("none": not supplied, "ok", or "raises")
CallProfiles ==
    { [op |-> "generate_code", provider_id |-> "p1", model_id |-> "m1",
       thinking_callback |-> "ok"],
      [op |-> "debug_code", provider_id |-> "", model_id |-> "",
       thinking_callback |-> "none"],
      [op |-> "refactor_code", provider_id |-> "p1", model_id |-> "m1",
       thinking_callback |-> "raises"] }

VARIABLES
    pc,             \* task -> where the task operation is suspended
    call,           \* task -> the arguments it was called with
    original_cwd,   \* task -> original_cwd of _send_message_via_cli
    process,        \* task -> the child: started, pipes open, returncode
    stdout_pipe,    \* task -> lines written to stdout and not yet read
    stderr_pipe,    \* task -> lines written to stderr and not yet read
    readers,        \* task -> locals of the two readers
    result,         \* task -> what _send_message_via_cli returned
    out,            \* task -> what the task operation returned
    emitted,        \* task -> what the child wrote to stdout (history)
    cb_log,         \* task -> texts the thinking callback was awaited with
    outcome,        \* task -> how the call ended (history)
    cwd_before      \* task -> working directory when the pipeline was entered

proxyVars == <<pc, call, original_cwd, process, stdout_pipe, stderr_pipe,
               readers, result, out, emitted, cb_log, outcome, cwd_before>>

smVars == <<sessions, active_sessions, user_preferences, ret, created>>

VARIABLES
    file_paths,     \* create_session_archive: the candidates it was given
    zip_entries,    \* the candidates (by position) written into the archive
    archive_result  \* what create_session_archive returned

archiveVars == <<file_paths, zip_entries, archive_result>>

NoArchive == [zip_buffer |-> None, file_count |-> 0]

InitArchive ==
    /\ file_paths = <<>>
    /\ zip_entries = <<>>
    /\ archive_result = NoArchive

VARIABLES
    send_args,      \* what the file sender was last called with
    send_path,      \* the branch it took: "none", "individual", "archive"
    files_to_send   \* how many documents _send_individual_files prepared

sendVars == <<send_args, send_path, files_to_send>>

InitSend ==
    /\ send_args = [entry |-> "", all |-> 0, threshold |-> 0, profile |-> ""]
    /\ send_path = "none"
    /\ files_to_send = 0

VARIABLES
    fsm_data        \* user -> the keys of the FSM data of the user's chat
                    \* that handlers test (the code and the focus)

InitFsmData == fsm_data = [u \in Users |-> {}]

VARIABLES
    created_by      \* history: the calls of create_session that returned,
                    \* each as <<user, identifier returned>>

InitCreatedBy == created_by = <<>>

VARIABLES
    edit_data,      \* user -> edit_filename, edit_session_id and
                    \* edit_original_content of the FSM data
    last_saved      \* history: <<session, name>> -> the content last saved
                    \* through /edit

editVars == <<edit_data, last_saved>>

NoEdit == [edit_filename |-> "", edit_session_id |-> 0,
           edit_original_content |-> <<"<None>">>]

InitEdit ==
    /\ edit_data = [u \in Users |-> NoEdit]
    /\ last_saved = <<>>

\* the state of the subsystems beside the store, the proxy and the tracker
auxVars == <<archiveVars, sendVars, fsm_data, created_by, editVars>>

InitAux ==
    InitArchive /\ InitSend /\ InitFsmData /\ InitCreatedBy /\ InitEdit

VARIABLES
    fsm,            \* user -> the FSM state of the user's chat
    handler         \* task -> the handler that runs in it, and its user

botVars == <<fsm, handler, auxVars>>

NoHandler == [name |-> "", user |-> ""]

InitBot ==
    /\ fsm = [u \in Users |-> None]
    /\ handler = [t \in Tasks |-> NoHandler]

VARIABLES
    fs,              \* the files on disk: absolute path -> content
    before_snapshot, \* FileChangeTracker.before_snapshot: path -> hash
    file_changes,    \* what take_after_snapshot returned last
    fs_before,       \* the files when the before-snapshot was taken
    tracker_pc,      \* where the tracked invocation stands
    writes           \* how many times the folder has been written

VARIABLES
    moved_files,     \* result["moved_files"] of the tracked invocation
    moved_at,        \* where on disk each entry of moved_files lies
    files_out,       \* the "files" the task operation returns
    scan_base,       \* the directory the after-snapshot walked
    runs             \* how many task operations have returned

mergeVars == <<moved_files, moved_at, files_out, scan_base, runs>>

\* the tracker's own state, the file senders' and the history
filesVars ==
    <<fs, before_snapshot, file_changes, fs_before, tracker_pc, writes,
      mergeVars, archiveVars, sendVars, created_by, editVars>>

trackerVars ==
    <<fs, before_snapshot, file_changes, fs_before, tracker_pc, writes,
      mergeVars, auxVars>>

NoChanges == [created |-> <<>>, modified |-> <<>>, all |-> <<>>]
NoFiles == [created |-> {}, modified |-> {}, all |-> {}]

InitTracker ==
    /\ fs = EmptyMap
    /\ before_snapshot = EmptyMap
    /\ file_changes = NoChanges
    /\ fs_before = EmptyMap
    /\ tracker_pc = "new"
    /\ writes = 0
    /\ moved_files = <<>>
    /\ moved_at = <<>>
    /\ files_out = NoFiles
    /\ scan_base = NoPath
    /\ runs = 0

NoCall == [op |-> "", session_id |-> 0, provider_id |-> "", model_id |-> "",
           thinking_callback |-> "none"]
NoProcess == [started |-> FALSE, stdout_open |-> FALSE,
              stderr_open |-> FALSE, returncode |-> -1]
NoReaders == [stdout_done |-> FALSE, stderr_done |-> FALSE,
              thinking_blocks |-> <<>>, text_responses |-> <<>>,
              stderr_lines |-> <<>>]
NoResult == [response |-> <<>>, thinking |-> <<>>, error |-> FALSE]
NoOut == [response |-> <<>>, thinking |-> <<>>, error |-> FALSE,
          session_folder |-> NoPath, telegram_session_id |-> 0]

\* History of the child's standard output: how many lines it wrote, how many
\* of them were no structured record, and the texts carried by the
\* thinking/reasoning/step-boundary records and by the text records it wrote.
NothingEmitted == [count |-> 0, unparsed |-> 0, thinking |-> <<>>,
                   text |-> <<>>]

CarriedThinking(line) ==
    IF line.kind = "object"
       /\ line.type \in {"thinking", "reasoning", "step_start", "step_finish"}
    THEN IF line.text \notin {Absent, ""} THEN line.text
         ELSE IF line.part = "dict" /\ line.part_text \notin {Absent, ""}
              THEN line.part_text ELSE ""
    ELSE ""

CarriedText(line) ==
    IF line.kind = "object" /\ line.type = "text" /\ line.part = "dict"
       /\ line.part_text \notin {Absent, ""}
    THEN line.part_text ELSE ""

Emit(e, line) ==
    [count |-> e.count + 1,
     unparsed |-> IF line.kind # "object" THEN e.unparsed + 1 ELSE e.unparsed,
     thinking |-> IF CarriedThinking(line) # ""
                  THEN Append(e.thinking, CarriedThinking(line))
                  ELSE e.thinking,
     text |-> IF CarriedText(line) # ""
              THEN Append(e.text, CarriedText(line)) ELSE e.text]

InitProxy ==
    /\ pc = [t \in Tasks |-> "idle"]
    /\ call = [t \in Tasks |-> NoCall]
    /\ original_cwd = [t \in Tasks |-> NoPath]
    /\ process = [t \in Tasks |-> NoProcess]
    /\ stdout_pipe = [t \in Tasks |-> <<>>]
    /\ stderr_pipe = [t \in Tasks |-> <<>>]
    /\ readers = [t \in Tasks |-> NoReaders]
    /\ result = [t \in Tasks |-> NoResult]
    /\ out = [t \in Tasks |-> NoOut]
    /\ emitted = [t \in Tasks |-> NothingEmitted]
    /\ cb_log = [t \in Tasks |-> <<>>]
    /\ outcome = [t \in Tasks |-> "none"]
    /\ cwd_before = [t \in Tasks |-> NoPath]

(***************************************************************************)
(* read_stdout: what one line does to the reader's lists.                  *)
(***************************************************************************)
ThinkingTypes == {"thinking", "reasoning", "step_start", "step_finish"}

\* the exception json.loads / event.get / `"text" in event["part"]` /
\* part.get raise for this line and escape read_stdout ("" if none does;
\* json.JSONDecodeError is caught inside)
LineRaisesNothing(line) == ""

LineRaises(line) ==
    IF line.kind = "json_value" THEN "AttributeError"
    ELSE IF line.kind # "object" THEN ""
    ELSE IF /\ line.type \in ThinkingTypes
            /\ ~(line.type = "thinking" /\ line.text # Absent)
            /\ line.part = "number"
         THEN "TypeError"
    ELSE IF line.type = "text" /\ line.part = "number" THEN "AttributeError"
    ELSE ""

\* thinking_text of the line ("" when the line gives none)
ThinkingTextFirstOnly(line) ==
    IF line.kind = "object" /\ line.type = "thinking" /\ line.text # Absent
    THEN line.text ELSE ""

ThinkingText(line) ==
    IF line.kind # "object" \/ line.type \notin ThinkingTypes THEN ""
    ELSE IF line.type = "thinking" /\ line.text # Absent THEN line.text
    ELSE IF line.part = "dict" /\ line.part_text # Absent THEN line.part_text
    ELSE ""

\* part.get("text", "") of a text record ("" when the line gives none)
ResponseText(line) ==
    IF line.kind = "object" /\ line.type = "text" /\ line.part = "dict"
       /\ line.part_text # Absent
    THEN line.part_text ELSE ""

\* re.findall of the fenced-code pattern on one text
CodeBlocksOf(text) == IF text = FencedText THEN <<"d">> ELSE <<>>

RECURSIVE CodeBlocks(_)
CodeBlocks(texts) ==
    IF texts = <<>> THEN <<>>
    ELSE CodeBlocksOf(Head(texts)) \o CodeBlocks(Tail(texts))

\* response_text computed from text_responses
ResponseOf(text_responses) ==
    IF text_responses = <<>> THEN <<>>
    ELSE IF CodeBlocks(text_responses) # <<>>
         THEN <<Head(CodeBlocks(text_responses))>>
         ELSE text_responses

(***************************************************************************)
(* The results _send_message_via_cli returns.                              *)
(***************************************************************************)
CliFailedPrefix == "OpenCode CLI command failed. Error:"
TimedOutMessage == "OpenCode request timed out after 120 seconds. The request took too long to complete."
UnexpectedPrefix == "Unexpected error running OpenCode command. Error:"
NoResponseMessage == "No response received from OpenCode CLI"
RemoteFailedMessage == "Failed to create OpenCode session"
EmptyResponseWarning == "empty response from OpenCode"

NonZeroExitResult(stderr_lines) ==
    [response |-> <<CliFailedPrefix>> \o stderr_lines, thinking |-> <<>>,
     error |-> TRUE]

SuccessResult(rd) ==
    [response |-> IF ResponseOf(rd.text_responses) = <<>>
                  THEN <<NoResponseMessage>>
                  ELSE ResponseOf(rd.text_responses),
     thinking |-> rd.thinking_blocks,
     error |-> FALSE]

\* mutant: the generic handler catches the timeout too
ExceptionResultGeneric(exc) ==
    [response |-> <<UnexpectedPrefix, exc>>, thinking |-> <<>>,
     error |-> TRUE]

\* the except clauses: asyncio.TimeoutError first, then Exception
ExceptionResult(exc) ==
    IF exc = "TimeoutError"
    THEN [response |-> <<TimedOutMessage>>, thinking |-> <<>>, error |-> TRUE]
    ELSE [response |-> <<UnexpectedPrefix, exc>>, thinking |-> <<>>,
          error |-> TRUE]

\* mutant: the directory is restored on the success path only
RestoredCwdOnSuccessOnly(t, how) ==
    IF how = "success" /\ original_cwd[t] # NoPath
       /\ original_cwd[t] \in dirs
    THEN original_cwd[t] ELSE cwd

\* the finally clause: the working directory after the call ended `how`
RestoredCwd(t, how) ==
    IF original_cwd[t] # NoPath /\ original_cwd[t] \in dirs
    THEN original_cwd[t] ELSE cwd


(***************************************************************************)
(* The task operations generate_code / debug_code / refactor_code: the     *)
(* three share every step and differ in the prompt and the session title.  *)
(***************************************************************************)
\* entry of the task operation, up to the await of take_before_snapshot
task_operation(t, session_id, profile) ==
    /\ pc[t] = "idle"
    /\ call' = [call EXCEPT ![t] =
                  [op |-> profile.op, session_id |-> session_id,
                   provider_id |-> profile.provider_id,
                   model_id |-> profile.model_id,
                   thinking_callback |-> profile.thinking_callback]]
    /\ dirs' = Mkdir(SessionFolderPath(session_id))
    /\ pc' = [pc EXCEPT ![t] = "take_before_snapshot"]
    /\ UNCHANGED <<cwd, original_cwd, process, stdout_pipe, stderr_pipe,
                   readers, result, out, emitted, cb_log, outcome,
                   cwd_before>>

take_before_snapshot(t) ==
    /\ pc[t] = "take_before_snapshot"
    /\ pc' = [pc EXCEPT ![t] = "create_session"]
    /\ UNCHANGED <<cwd, dirs, call, original_cwd, process, stdout_pipe,
                   stderr_pipe, readers, result, out, emitted, cb_log,
                   outcome, cwd_before>>

\* _send_message_via_cli up to the await of create_subprocess_exec:
\* get_session_folder, os.getcwd, os.chdir
EnterCli(t) ==
    /\ dirs' = Mkdir(SessionFolderPath(call[t].session_id))
    /\ original_cwd' = [original_cwd EXCEPT ![t] = cwd]
    /\ cwd_before' = [cwd_before EXCEPT ![t] = cwd]
    /\ cwd' = cwd \o SessionFolderPath(call[t].session_id)
    /\ pc' = [pc EXCEPT ![t] = "create_subprocess_exec"]

\* mutant: the early return is the bare error dict of the CLI call
RemoteFailedReturnBare(session_id) ==
    [response |-> <<RemoteFailedMessage>>, thinking |-> <<>>,
     events |-> <<>>, error |-> TRUE]

\* the return when create_session gave no id
RemoteFailedReturn(session_id) ==
    [response |-> <<RemoteFailedMessage>>,
     files |-> [created |-> <<>>, modified |-> <<>>, all |-> <<>>],
     thinking |-> <<>>,
     session_folder |-> SessionFolderPath(session_id),
     telegram_session_id |-> session_id,
     error |-> TRUE]

\* OpenCodeProxy.create_session answers: an id, or "" on any failure
opencode_create_session(t, ok) ==
    /\ pc[t] = "create_session"
    /\ IF ~ok
       THEN /\ out' = [out EXCEPT ![t] =
                        RemoteFailedReturn(call[t].session_id)]
            /\ outcome' = [outcome EXCEPT ![t] = "remote_failed"]
            /\ pc' = [pc EXCEPT ![t] = "returned"]
            /\ UNCHANGED <<cwd, dirs, original_cwd, cwd_before>>
       ELSE IF call[t].provider_id = "" \/ call[t].model_id = ""
            THEN /\ pc' = [pc EXCEPT ![t] = "get_default_provider"]
                 /\ UNCHANGED <<cwd, dirs, original_cwd, cwd_before, out,
                                outcome>>
            ELSE /\ EnterCli(t)
                 /\ UNCHANGED <<out, outcome>>
    /\ UNCHANGED <<call, process, stdout_pipe, stderr_pipe, readers, result,
                   emitted, cb_log>>

\* send_message fills a missing provider or model from the default
send_message(t) ==
    /\ pc[t] = "get_default_provider"
    /\ call' = [call EXCEPT
                  ![t].provider_id = IF @ = ""
                                     THEN get_default_provider.provider_id
                                     ELSE @,
                  ![t].model_id = IF @ = ""
                                  THEN get_default_provider.model_id ELSE @]
    /\ EnterCli(t)
    /\ UNCHANGED <<process, stdout_pipe, stderr_pipe, readers, result, out,
                   emitted, cb_log, outcome>>

\* _send_message_via_cli returns `res`: the finally clause runs, and the
\* task operation goes on to await take_after_snapshot
Finish(t, res, how) ==
    /\ result' = [result EXCEPT ![t] = res]
    /\ cwd' = RestoredCwd(t, how)
    /\ outcome' = [outcome EXCEPT ![t] = how]
    /\ pc' = [pc EXCEPT ![t] = "take_after_snapshot"]

create_subprocess_exec(t, ok) ==
    /\ pc[t] = "create_subprocess_exec"
    /\ IF ok
       THEN /\ process' = [process EXCEPT ![t] =
                             [started |-> TRUE, stdout_open |-> TRUE,
                              stderr_open |-> TRUE, returncode |-> -1]]
            /\ pc' = [pc EXCEPT ![t] = "gather"]
            /\ UNCHANGED <<cwd, result, outcome>>
       ELSE /\ Finish(t, ExceptionResult("FileNotFoundError"),
                      "launch_failed")
            /\ UNCHANGED process
    /\ UNCHANGED <<dirs, call, original_cwd, stdout_pipe, stderr_pipe,
                   readers, out, emitted, cb_log, cwd_before>>

\* does an exception raised by the awaited thinking callback leave the
\* read loop?  It is caught by the except Exception around the await.
CallbackPropagatesRaise(cb) == cb = "raises"

CallbackPropagates(cb) == FALSE

\* read_stdout runs inside the awaited gather, until EOF or an exception
ReadLoopRunsDetached(t) ==
    /\ pc[t] \in {"gather", "wait", "take_after_snapshot"}
    /\ ~readers[t].stdout_done

ReadLoopRuns(t) ==
    /\ pc[t] = "gather"
    /\ ~readers[t].stdout_done

\* one turn of the loop of read_stdout
read_stdout(t) ==
    /\ ReadLoopRuns(t)
    /\ \/ /\ stdout_pipe[t] # <<>>
          /\ LET line == Head(stdout_pipe[t])
                 thinking_text == ThinkingText(line)
                 text == ResponseText(line)
             IN /\ stdout_pipe' = [stdout_pipe EXCEPT ![t] = Tail(@)]
                /\ IF LineRaises(line) # ""
                   THEN /\ Finish(t, ExceptionResult(LineRaises(line)),
                                  "exception")
                        /\ UNCHANGED <<readers, cb_log>>
                   ELSE IF thinking_text # ""
                           /\ CallbackPropagates(call[t].thinking_callback)
                   THEN /\ Finish(t, ExceptionResult("CallbackError"),
                                  "exception")
                        /\ cb_log' = [cb_log EXCEPT ![t] =
                                         Append(@, thinking_text)]
                        /\ UNCHANGED readers
                   ELSE /\ readers' = [readers EXCEPT
                              ![t].thinking_blocks =
                                  IF thinking_text # ""
                                  THEN Append(@, thinking_text) ELSE @,
                              ![t].text_responses =
                                  IF text # "" THEN Append(@, text) ELSE @]
                        /\ cb_log' = [cb_log EXCEPT ![t] =
                              IF thinking_text # ""
                                 /\ call[t].thinking_callback # "none"
                              THEN Append(@, thinking_text) ELSE @]
                        /\ UNCHANGED <<cwd, result, outcome, pc>>
       \/ /\ stdout_pipe[t] = <<>>
          /\ ~process[t].stdout_open
          /\ readers' = [readers EXCEPT ![t].stdout_done = TRUE]
          /\ pc' = [pc EXCEPT ![t] =
                      IF readers[t].stderr_done THEN "wait" ELSE @]
          /\ UNCHANGED <<cwd, result, outcome, stdout_pipe, cb_log>>
    /\ UNCHANGED <<dirs, call, original_cwd, process, stderr_pipe, out,
                   emitted, cwd_before>>

\* one turn of the loop of read_stderr
read_stderr(t) ==
    /\ pc[t] = "gather"
    /\ ~readers[t].stderr_done
    /\ \/ /\ stderr_pipe[t] # <<>>
          /\ stderr_pipe' = [stderr_pipe EXCEPT ![t] = Tail(@)]
          /\ readers' = [readers EXCEPT ![t].stderr_lines =
                            Append(@, Head(stderr_pipe[t]))]
          /\ UNCHANGED pc
       \/ /\ stderr_pipe[t] = <<>>
          /\ ~process[t].stderr_open
          /\ readers' = [readers EXCEPT ![t].stderr_done = TRUE]
          /\ pc' = [pc EXCEPT ![t] =
                      IF readers[t].stdout_done THEN "wait" ELSE @]
          /\ UNCHANGED stderr_pipe
    /\ UNCHANGED <<cwd, dirs, call, original_cwd, process, stdout_pipe,
                   result, out, emitted, cb_log, outcome, cwd_before>>

\* asyncio.wait_for(process.wait(), timeout=300) and what follows it
process_wait(t) ==
    /\ pc[t] = "wait"
    /\ \/ /\ process[t].returncode # -1
          /\ IF process[t].returncode # 0
             THEN Finish(t, NonZeroExitResult(readers[t].stderr_lines),
                         "nonzero")
             ELSE Finish(t, SuccessResult(readers[t]), "success")
       \/ /\ process[t].returncode = -1
          /\ Finish(t, ExceptionResult("TimeoutError"), "timeout")
    /\ UNCHANGED <<dirs, call, original_cwd, process, stdout_pipe,
                   stderr_pipe, readers, out, emitted, cb_log, cwd_before>>

\* the error flag of the dict the task operation builds from the result
\* of send_message (the "error" key is not copied)
OutErrorCopied(t) == result[t].error

OutError(t) == FALSE

\* take_after_snapshot, then the dict the task operation returns
take_after_snapshot(t) ==
    /\ pc[t] = "take_after_snapshot"
    /\ out' = [out EXCEPT ![t] =
                 [response |-> IF result[t].response = <<>>
                               THEN <<EmptyResponseWarning>>
                               ELSE result[t].response,
                  thinking |-> result[t].thinking,
                  error |-> OutError(t),
                  session_folder |-> SessionFolderPath(call[t].session_id),
                  telegram_session_id |-> call[t].session_id]]
    /\ pc' = [pc EXCEPT ![t] = "returned"]
    /\ UNCHANGED <<cwd, dirs, call, original_cwd, process, stdout_pipe,
                   stderr_pipe, readers, result, emitted, cb_log, outcome,
                   cwd_before>>

\* the caller takes the returned dict; the locals of the call are gone
ReturnToCaller(t) ==
    /\ pc[t] = "returned"
    /\ pc' = [pc EXCEPT ![t] = "idle"]
    /\ call' = [call EXCEPT ![t] = NoCall]
    /\ original_cwd' = [original_cwd EXCEPT ![t] = NoPath]
    /\ process' = [process EXCEPT ![t] = NoProcess]
    /\ stdout_pipe' = [stdout_pipe EXCEPT ![t] = <<>>]
    /\ stderr_pipe' = [stderr_pipe EXCEPT ![t] = <<>>]
    /\ readers' = [readers EXCEPT ![t] = NoReaders]
    /\ result' = [result EXCEPT ![t] = NoResult]
    /\ out' = [out EXCEPT ![t] = NoOut]
    /\ emitted' = [emitted EXCEPT ![t] = NothingEmitted]
    /\ cb_log' = [cb_log EXCEPT ![t] = <<>>]
    /\ outcome' = [outcome EXCEPT ![t] = "none"]
    /\ cwd_before' = [cwd_before EXCEPT ![t] = NoPath]
    /\ UNCHANGED <<cwd, dirs>>

(***************************************************************************)
(* The opencode child: it writes lines, closes its pipes, exits - or does  *)
(* none of these.  A write waits until the reader has taken the line       *)
(* before it (a pipe that buffers one line).                               *)
(***************************************************************************)
Running(t) == process[t].started /\ process[t].returncode = -1

ChildWriteStdout(t, line) ==
    /\ Running(t) /\ process[t].stdout_open
    /\ stdout_pipe[t] = <<>>
    /\ emitted[t].count < MaxLines
    /\ stdout_pipe' = [stdout_pipe EXCEPT ![t] = Append(@, line)]
    /\ emitted' = [emitted EXCEPT ![t] = Emit(@, line)]
    /\ UNCHANGED <<cwd, dirs, pc, call, original_cwd, process, stderr_pipe,
                   readers, result, out, cb_log, outcome, cwd_before>>

ChildWriteStderr(t, line) ==
    /\ Running(t) /\ process[t].stderr_open
    /\ stderr_pipe[t] = <<>>
    /\ Len(readers[t].stderr_lines) < MaxErrLines
    /\ stderr_pipe' = [stderr_pipe EXCEPT ![t] = Append(@, line)]
    /\ UNCHANGED <<cwd, dirs, pc, call, original_cwd, process, stdout_pipe,
                   readers, result, out, emitted, cb_log, outcome,
                   cwd_before>>

ChildCloseStdout(t) ==
    /\ Running(t) /\ process[t].stdout_open
    /\ process' = [process EXCEPT ![t].stdout_open = FALSE]
    /\ UNCHANGED <<cwd, dirs, pc, call, original_cwd, stdout_pipe,
                   stderr_pipe, readers, result, out, emitted, cb_log,
                   outcome, cwd_before>>

ChildCloseStderr(t) ==
    /\ Running(t) /\ process[t].stderr_open
    /\ process' = [process EXCEPT ![t].stderr_open = FALSE]
    /\ UNCHANGED <<cwd, dirs, pc, call, original_cwd, stdout_pipe,
                   stderr_pipe, readers, result, out, emitted, cb_log,
                   outcome, cwd_before>>

ChildExit(t, code) ==
    /\ Running(t)
    /\ process' = [process EXCEPT ![t] =
                     [started |-> TRUE, stdout_open |-> FALSE,
                      stderr_open |-> FALSE, returncode |-> code]]
    /\ UNCHANGED <<cwd, dirs, pc, call, original_cwd, stdout_pipe,
                   stderr_pipe, readers, result, out, emitted, cb_log,
                   outcome, cwd_before>>

\* the steps of the bot itself in a task (not of the child)
TaskStep(t) ==
    \/ take_before_snapshot(t)
    \/ \E ok \in BOOLEAN : opencode_create_session(t, ok)
    \/ send_message(t)
    \/ \E ok \in BOOLEAN : create_subprocess_exec(t, ok)
    \/ read_stdout(t)
    \/ read_stderr(t)
    \/ process_wait(t)
    \/ take_after_snapshot(t)

ChildStep(t) ==
    \/ \E line \in StdoutLines : ChildWriteStdout(t, line)
    \/ \E line \in StderrLines : ChildWriteStderr(t, line)
    \/ ChildCloseStdout(t)
    \/ ChildCloseStderr(t)
    \/ \E code \in {0, 1} : ChildExit(t, code)

(***************************************************************************)
(* SpecProxy: one caller that calls the task operations one at a time.     *)
(***************************************************************************)
ProxyTasks == {"t1"}
ProxySessionIds == {1, 2}

ProxyTaskStep(t) == TaskStep(t) /\ UNCHANGED <<smVars, catalog, botVars, trackerVars>>

NextProxy ==
    \/ /\ \E t \in ProxyTasks, sid \in ProxySessionIds, prof \in CallProfiles :
             task_operation(t, sid, prof)
       /\ UNCHANGED <<smVars, catalog, botVars, trackerVars>>
    \/ \E t \in ProxyTasks : ProxyTaskStep(t)
    \/ /\ \E t \in ProxyTasks : ChildStep(t)
       /\ UNCHANGED <<smVars, catalog, botVars, trackerVars>>
    \/ /\ \E t \in ProxyTasks : ReturnToCaller(t)
       /\ UNCHANGED <<smVars, catalog, botVars, trackerVars>>

vars == <<storeVars, proxyVars, botVars, trackerVars>>

Init == InitStore /\ InitProxy /\ InitBot /\ InitTracker /\ InitAux

NextStore ==
    \/ \E u \in Users : create_session(u)
    \/ \E u \in Users : get_active_session(u)
    \/ \E u \in Users : list_user_sessions(u)
    \/ \E u \in Users, sid \in SessionIds : switch_session(u, sid)
    \/ \E u \in Users : set_user_preference(u, "p1", "m1")

NextStoreOnly == NextStore /\ UNCHANGED <<proxyVars, botVars, trackerVars>>

SpecStore == Init /\ [][NextStoreOnly]_vars

(***************************************************************************)
(* SpecStoreReaders: handlers of several users call the store, readers     *)
(* among them.  No store method awaits between its reads and writes, so    *)
(* the event loop runs each call to its end before the next one.           *)
(***************************************************************************)
\* the provider/model pairs that callers write
PreferencePairs == {<<"p1", "m1">>, <<"p2", "m2">>}

NextStoreReaders ==
    /\ \/ \E u \in Users : create_session(u)
       \/ \E u \in Users : get_active_session(u)
       \/ \E u \in Users : list_user_sessions(u)
       \/ \E u \in Users, s \in SessionIds : switch_session(u, s)
       \/ \E u \in Users, pair \in PreferencePairs :
             set_user_preference(u, pair[1], pair[2])
       \/ \E u \in Users : get_user_preference(u)
    /\ UNCHANGED <<proxyVars, botVars, trackerVars>>

SpecStoreReaders == Init /\ [][NextStoreReaders]_vars

SpecProxy == Init /\ [][NextProxy]_vars

\* The event loop runs every coroutine that can go on, and a timer that is
\* armed fires; nothing makes the child write, close or exit.
FairSpecProxy ==
    /\ Init
    /\ [][NextProxy]_vars
    /\ \A t \in ProxyTasks : WF_vars(ProxyTaskStep(t))

(***************************************************************************)
(* bot/handlers: the handlers that start a generation.  The dispatcher     *)
(* runs each update's handler as its own task, so handlers of the same     *)
(* user overlap at their awaits.                                           *)
(***************************************************************************)
\* the task a new update's handler runs in
FreeTask == CHOOSE t \in Tasks :
                /\ pc[t] = "idle"
                /\ \A t2 \in Tasks : pc[t2] = "idle" => (t = "t1" \/ t2 # "t1")

SomeTaskFree == \E t \in Tasks : pc[t] = "idle"

\* /newsession
cmd_new_session(u) ==
    /\ create_session(u)
    /\ UNCHANGED <<proxyVars, botVars, trackerVars>>

\* /generate
cmd_generate(u) ==
    /\ fsm' = IF HasActiveSession(u)
              THEN [fsm EXCEPT ![u] = "GenerateStates:waiting_for_prompt"]
              ELSE fsm
    /\ UNCHANGED <<storeVars, proxyVars, handler, trackerVars>>

\* a message in state waiting_for_prompt, up to the call of generate_code
process_generation_prompt(u, has_text) ==
    /\ fsm[u] = "GenerateStates:waiting_for_prompt"
    /\ SomeTaskFree
    /\ LET user_prefs == UserPreferenceOf(u)
           connected == get_providers.connected
           default == get_default_provider
       IN IF ~HasActiveSession(u) \/ ~has_text
          THEN /\ fsm' = [fsm EXCEPT ![u] = None]
               /\ fsm_data' = [fsm_data EXCEPT ![u] = {}]
               /\ UNCHANGED <<storeVars, proxyVars, handler, filesVars>>
          ELSE IF /\ user_prefs.provider_id # ""
                  /\ \A i \in 1..Len(connected) :
                        connected[i] # user_prefs.provider_id
               THEN /\ user_preferences' =
                          (u :> [PrefsOf(u) EXCEPT
                                   !.keys = @ \cup {"provider_id", "model_id"},
                                   !.provider_id = default.provider_id,
                                   !.model_id = default.model_id])
                             @@ user_preferences
                    /\ fsm' = [fsm EXCEPT ![u] = None]
                    /\ fsm_data' = [fsm_data EXCEPT ![u] = {}]
                    /\ UNCHANGED <<sessions, active_sessions, ret, created,
                                   catalog, cwd, dirs, proxyVars, handler,
                                   filesVars>>
               ELSE /\ task_operation(FreeTask, ActiveSessionOf(u).id,
                          [op |-> "generate_code",
                           provider_id |-> user_prefs.provider_id,
                           model_id |-> user_prefs.model_id,
                           thinking_callback |-> "ok"])
                    /\ handler' = [handler EXCEPT ![FreeTask] =
                          [name |-> "process_generation_prompt", user |-> u]]
                    /\ UNCHANGED <<smVars, catalog, fsm, trackerVars>>

\* a plain text message outside any FSM state, up to the call of
\* generate_code
handle_text_message(u) ==
    /\ fsm[u] = None
    /\ SomeTaskFree
    /\ IF ~HasActiveSession(u)
       THEN UNCHANGED vars
       ELSE /\ task_operation(FreeTask, ActiveSessionOf(u).id,
                  [op |-> "generate_code",
                   provider_id |-> UserPreferenceOf(u).provider_id,
                   model_id |-> UserPreferenceOf(u).model_id,
                   thinking_callback |-> "ok"])
            /\ handler' = [handler EXCEPT ![FreeTask] =
                  [name |-> "handle_text_message", user |-> u]]
            /\ UNCHANGED <<smVars, catalog, fsm, trackerVars>>

\* the task operation has returned: the handler reports the result and
\* ends; every handler but handle_text_message ends with state.clear()
handler_done(t) ==
    /\ handler[t] # NoHandler
    /\ ReturnToCaller(t)
    /\ fsm' = IF handler[t].name # "handle_text_message"
              THEN [fsm EXCEPT ![handler[t].user] = None]
              ELSE fsm
    /\ fsm_data' = IF handler[t].name # "handle_text_message"
                   THEN [fsm_data EXCEPT ![handler[t].user] = {}]
                   ELSE fsm_data
    /\ handler' = [handler EXCEPT ![t] = NoHandler]
    /\ UNCHANGED <<smVars, catalog, filesVars>>

\* In SpecBot a child writes at most MaxBotLines thinking records and
\* closes its pipes when it exits
BotStdoutLines == {ThinkingLine}

BotChildStep(t) ==
    \/ \E line \in BotStdoutLines :
          emitted[t].count < MaxBotLines /\ ChildWriteStdout(t, line)
    \/ \E code \in {0, 1} : ChildExit(t, code)

\* the users whose updates arrive
BotUsers == {"u1"}

NextBot ==
    \/ \E u \in BotUsers : Len(created) < MaxBotSessions /\ cmd_new_session(u)
    \/ \E u \in BotUsers : cmd_generate(u)
    \/ \E u \in BotUsers, has_text \in BOOLEAN :
          Len(cwd) <= MaxCwdDepth /\ process_generation_prompt(u, has_text)
    \/ \E u \in BotUsers :
          Len(cwd) <= MaxCwdDepth /\ handle_text_message(u)
    \/ \E t \in Tasks : ProxyTaskStep(t)
    \/ \E t \in Tasks : BotChildStep(t) /\ UNCHANGED <<smVars, catalog, botVars, trackerVars>>
    \/ \E t \in Tasks : handler_done(t)

SpecBot == Init /\ [][NextBot]_vars

(***************************************************************************)
(* core/file_tracker.py: FileChangeTracker over one session folder.        *)
(* A path below the folder is a sequence of names; a name is spelled as a  *)
(* sequence of tokens, so that the substring, suffix and prefix tests of   *)
(* _should_exclude are computed on the spelling.                           *)
(***************************************************************************)
TrackerSession == 1

\* self.session_folder
TrackerFolder == SessionFolderPath(TrackerSession)

\* the spelling of str(self.session_folder)
TrackerFolderTokens == <<"work_place", "/", "uuid">>

NameTokens(name) ==
    CASE name = "a.py" -> <<"a", ".", "py">>
      [] name = "b.py" -> <<"b", ".", "py">>
      [] name = "c.py" -> <<"c", ".", "py">>
      [] name = ".git" -> <<".", "git">>
      [] name = "config" -> <<"config">>
      [] name = "node_modules" -> <<"node_modules">>
      [] name = "m.js" -> <<"m", ".", "js">>
      [] name = "x.pyc" -> <<"x", ".", "pyc">>
      [] name = ".hidden" -> <<".", "hidden">>
      [] name = ".cache" -> <<".", "cache">>
      [] name = "m.py" -> <<"m", ".", "py">>
      [] name = "proc.md" -> <<"proc", ".", "md">>
      [] OTHER -> <<name>>

\* the paths below the session folder at which files may come to lie, in
\* the order rglob yields them: those an agent writes, and those at which
\* the pipeline leaves a moved file or proc.md
RglobOrder ==
    << <<"a.py">>, <<"b.py">>, <<"c.py">>, <<".git", "config">>,
       <<"node_modules", "m.js">>, <<"x.pyc">>, <<".hidden">>,
       <<".cache", "a.py">>, <<"m.py">>, <<"proc.md">>,
       <<"work_place", 1, "m.py">>, <<"work_place", 1, "proc.md">>,
       <<"work_place", 2, "work_place", 1, "m.py">>,
       <<"work_place", 2, "work_place", 1, "proc.md">> >>

FolderPaths == {RglobOrder[i] : i \in 1..Len(RglobOrder)}

\* the paths written in SpecTracker
WritablePaths ==
    { <<"a.py">>, <<"b.py">>, <<"c.py">>, <<".git", "config">>,
      <<"node_modules", "m.js">>, <<"x.pyc">>, <<".hidden">>,
      <<".cache", "a.py">> }

\* the paths whose content may also be unreadable
PlainPaths == {<<"a.py">>, <<"b.py">>, <<"c.py">>}

Unreadable == "unreadable"
Contents == {"v1", "v2", Unreadable}

\* self._exclude_patterns, spelled
ExcludePatterns ==
    { <<"__pycache__">>, <<".", "git">>, <<".", "env">>,
      <<".", "DS_Store">>, <<"Thumbs", ".", "db">>, <<"*", ".", "pyc">>,
      <<"*", ".", "pyo">>, <<"*", ".", "swp">>, <<".", "vscode">>,
      <<".", "idea">>, <<"node_modules">>, <<".", "gitignore">>,
      <<".", "gitmodules">>, <<".", "hg">>, <<".", "svn">>,
      <<".", "bzr">> }

\* str(filepath): the folder, then the names joined by "/"
RECURSIVE JoinNames(_)
JoinNames(rel) ==
    IF rel = <<>> THEN <<>>
    ELSE IF Head(rel) = "work_place"
         THEN <<"/">> \o TrackerFolderTokens \o JoinNames(Tail(Tail(rel)))
         ELSE <<"/">> \o NameTokens(Head(rel)) \o JoinNames(Tail(rel))

PathStr(rel) == TrackerFolderTokens \o JoinNames(rel)

\* pattern in path_str
Contains(str, pattern) ==
    \E i \in 1..(Len(str) - Len(pattern) + 1) :
        SubSeq(str, i, i + Len(pattern) - 1) = pattern

\* filepath.suffix: from the last dot of the name, a leading dot apart
Suffix(name) ==
    LET tokens == NameTokens(name)
        dots == {i \in 2..Len(tokens) : tokens[i] = "."}
    IN IF dots = {} \/ tokens[Len(tokens)] = "." THEN <<>>
       ELSE SubSeq(tokens, CHOOSE i \in dots : \A j \in dots : j <= i,
                   Len(tokens))

\* mutant of _should_exclude: the pattern test only
should_exclude_patterns_only(rel) ==
    \E pattern \in ExcludePatterns : Contains(PathStr(rel), pattern)

_should_exclude(rel) ==
    \/ \E pattern \in ExcludePatterns : Contains(PathStr(rel), pattern)
    \/ Suffix(rel[Len(rel)]) \in
          {<<".", "pyc">>, <<".", "pyo">>, <<".", "swp">>}
    \/ Head(NameTokens(rel[Len(rel)])) = "."

\* the paths of the folder that _should_exclude rejects
ExcludedPaths == {rel \in FolderPaths : _should_exclude(rel)}

\* _get_file_hash succeeds (an unreadable file gives None)
Hashable(content) == content # Unreadable

\* hashlib.md5(content).hexdigest()
Md5(content) == <<"md5", content>>

\* self.session_folder / rel, and filepath.relative_to(self.session_folder)
FilePath(rel) == TrackerFolder \o rel
relative_to(filepath) ==
    SubSeq(filepath, Len(TrackerFolder) + 1, Len(filepath))

Range(list) == {list[i] : i \in 1..Len(list)}

\* the directory that the relative self.session_folder names now
ScanBase == cwd \o TrackerFolder

\* the paths below the folder at which a file lies (rglob, is_file)
FilesBelow(files, base) == {rel \in FolderPaths : base \o rel \in DOMAIN files}

\* _get_file_hashes, with files on disk
_get_file_hashes(files) ==
    LET kept == {rel \in FilesBelow(files, ScanBase) :
                    /\ rel \notin ExcludedPaths
                    /\ Hashable(files[ScanBase \o rel])}
    IN [filepath \in {FilePath(rel) : rel \in kept} |->
           Md5(files[ScanBase \o relative_to(filepath)])]

\* the keys of a snapshot in the order of the walk
WalkOrder(snapshot) ==
    SelectSeq([i \in 1..Len(RglobOrder) |-> FilePath(RglobOrder[i])],
              LAMBDA filepath : filepath \in DOMAIN snapshot)

RECURSIVE RelativePaths(_)
RelativePaths(filepaths) ==
    IF filepaths = <<>> THEN <<>>
    ELSE <<relative_to(Head(filepaths))>> \o RelativePaths(Tail(filepaths))

\* the lists take_after_snapshot builds from the two snapshots
\* mutant of CreatedList: the before-snapshot is not consulted
CreatedListAll(before, after) == RelativePaths(WalkOrder(after))

CreatedList(before, after) ==
    RelativePaths(SelectSeq(WalkOrder(after),
                            LAMBDA filepath : filepath \notin DOMAIN before))

\* mutant of ModifiedList: the hashes are not compared
ModifiedListAnyHash(before, after) ==
    RelativePaths(SelectSeq(WalkOrder(after),
                            LAMBDA filepath : filepath \in DOMAIN before))

ModifiedList(before, after) ==
    RelativePaths(SelectSeq(WalkOrder(after),
                            LAMBDA filepath :
                                /\ filepath \in DOMAIN before
                                /\ after[filepath] # before[filepath]))

\* mutant of ClearedSnapshot: the before-snapshot is kept
KeptSnapshot(snapshot) == snapshot

\* self.before_snapshot.clear()
ClearedSnapshot(snapshot) == EmptyMap

FileChangeTracker_take_before_snapshot ==
    /\ tracker_pc = "new"
    /\ before_snapshot' = _get_file_hashes(fs)
    /\ fs_before' = fs
    /\ tracker_pc' = "before_taken"
    /\ UNCHANGED <<fs, file_changes, writes>>

FileChangeTracker_take_after_snapshot ==
    /\ tracker_pc \in {"before_taken", "cli_done", "after_taken"}
    /\ LET after_snapshot == _get_file_hashes(fs)
           created_list == CreatedList(before_snapshot, after_snapshot)
           modified_list == ModifiedList(before_snapshot, after_snapshot)
       IN file_changes' = [created |-> created_list,
                           modified |-> modified_list,
                           all |-> created_list \o modified_list]
    /\ before_snapshot' = ClearedSnapshot(before_snapshot)
    /\ fs_before' = IF tracker_pc = "after_taken" THEN EmptyMap
                    ELSE fs_before
    /\ tracker_pc' = "after_taken"
    /\ UNCHANGED <<fs, writes>>

\* the next task operation on the folder builds a new tracker
FileChangeTracker_init ==
    /\ tracker_pc = "after_taken"
    /\ before_snapshot' = EmptyMap
    /\ file_changes' = NoChanges
    /\ fs_before' = EmptyMap
    /\ tracker_pc' = "new"
    /\ UNCHANGED <<fs, writes>>

\* the agent (or anything else) writes or removes a file of the folder
FolderWrite(rel, content) ==
    /\ tracker_pc \in {"new", "before_taken"}
    /\ writes < MaxWrites
    /\ content = Unreadable => rel \in PlainPaths
    /\ (ScanBase \o rel \in DOMAIN fs) => (fs[ScanBase \o rel] # content)
    /\ fs' = (ScanBase \o rel :> content) @@ fs
    /\ writes' = writes + 1
    /\ UNCHANGED <<before_snapshot, file_changes, fs_before, tracker_pc>>

FolderRemove(rel) ==
    /\ tracker_pc \in {"new", "before_taken"}
    /\ writes < MaxWrites
    /\ ScanBase \o rel \in DOMAIN fs
    /\ fs' = [r \in DOMAIN fs \ {ScanBase \o rel} |-> fs[r]]
    /\ writes' = writes + 1
    /\ UNCHANGED <<before_snapshot, file_changes, fs_before, tracker_pc>>

NextTracker ==
    \/ FileChangeTracker_take_before_snapshot
         /\ UNCHANGED <<storeVars, proxyVars, botVars, mergeVars>>
    \/ FileChangeTracker_take_after_snapshot
         /\ UNCHANGED <<storeVars, proxyVars, botVars, mergeVars>>
    \/ FileChangeTracker_init
         /\ UNCHANGED <<storeVars, proxyVars, botVars, mergeVars>>
    \/ \E rel \in WritablePaths, content \in Contents :
          FolderWrite(rel, content)
             /\ UNCHANGED <<storeVars, proxyVars, botVars, mergeVars>>
    \/ \E rel \in WritablePaths :
          FolderRemove(rel)
             /\ UNCHANGED <<storeVars, proxyVars, botVars, mergeVars>>

SpecTracker == Init /\ [][NextTracker]_vars

(***************************************************************************)
(* SpecMerge: one task operation on session TrackerSession from its        *)
(* before-snapshot to the "files" it returns, with the files its agent     *)
(* writes and reports, and next to it another invocation (of session       *)
(* OtherSession) that enters and leaves _send_message_via_cli and so       *)
(* changes the working directory of the process.                           *)
(***************************************************************************)
MergeTask == "t1"
OtherTask == "t2"
OtherSession == 2
MaxRuns == 2
MaxOtherDepth == 2

\* the file the agent writes and names on its standard error
AgentFile == "m.py"
ProcMd == "proc.md"

\* how the agent names the file it reports: not at all, by its name, by
\* its absolute path, or by a path that starts with the session folder
ReportKinds == {"none", "relative", "absolute", "in_session"}

\* the working directory of the child: that of the process when it was
\* launched (os.chdir and the launch follow each other without an await)
ChildCwd == original_cwd[MergeTask] \o TrackerFolder

\* the file that the name in the report denotes now
ReportedFile(kind) ==
    CASE kind = "relative" -> cwd \o <<AgentFile>>
      [] kind = "absolute" -> ChildCwd \o <<AgentFile>>
      [] kind = "in_session" -> cwd \o TrackerFolder \o <<AgentFile>>
      [] OTHER -> NoPath

\* filepath.is_relative_to(session_folder), both taken as written
is_relative_to_session_folder(kind) == kind = "in_session"

\* str(dest) of move_file_to_session, str(filepath) of the skipped move
MovedName == TrackerFolder \o <<AgentFile>>

\* proc.md after one more entry was appended to it
Appended(files_on_disk, path) ==
    IF path \notin DOMAIN files_on_disk THEN "log1"
    ELSE IF files_on_disk[path] = "log1" THEN "log2"
    ELSE IF files_on_disk[path] = "log2" THEN "log3"
    ELSE "log4"

\* session_files.move_file_to_session: src.rename(folder / src.name)
move_file_to_session(files_on_disk, src) ==
    LET dest == cwd \o TrackerFolder \o <<AgentFile>>
    IN (dest :> files_on_disk[src])
       @@ [q \in DOMAIN files_on_disk \ {src} |-> files_on_disk[q]]

\* session_files.log_to_proc_md
log_to_proc_md(files_on_disk) ==
    LET proc_file == cwd \o TrackerFolder \o <<ProcMd>>
    IN (proc_file :> Appended(files_on_disk, proc_file)) @@ files_on_disk

\* generate_code: get_session_folder, FileChangeTracker, take_before_snapshot
generate_code_take_before_snapshot ==
    /\ runs < MaxRuns
    /\ FileChangeTracker_take_before_snapshot
    /\ dirs' = Mkdir(TrackerFolder)
    /\ UNCHANGED <<smVars, catalog, cwd, proxyVars, botVars, mergeVars>>

\* _send_message_via_cli: mkdir, os.getcwd, os.chdir, the child is launched
merge_enter_cli ==
    /\ tracker_pc = "before_taken"
    /\ dirs' = Mkdir(TrackerFolder)
    /\ original_cwd' = [original_cwd EXCEPT ![MergeTask] = cwd]
    /\ cwd' = cwd \o TrackerFolder
    /\ tracker_pc' = "in_cli"
    /\ UNCHANGED <<smVars, catalog, botVars, mergeVars, fs, before_snapshot,
                   file_changes, fs_before, writes, pc, call, process,
                   stdout_pipe, stderr_pipe, readers, result, out, emitted,
                   cb_log, outcome, cwd_before>>

\* the agent writes its file into its working directory
agent_writes(content) ==
    /\ tracker_pc = "in_cli"
    /\ writes < MaxWrites
    /\ fs' = (ChildCwd \o <<AgentFile>> :> content) @@ fs
    /\ writes' = writes + 1
    /\ UNCHANGED <<storeVars, proxyVars, botVars, mergeVars, before_snapshot,
                   file_changes, fs_before, tracker_pc>>

\* _send_message_via_cli, return code 0: the reported file is moved (or
\* found in the session folder), proc.md is written, finally os.chdir
merge_success(kind) ==
    /\ tracker_pc = "in_cli"
    /\ LET src == ReportedFile(kind)
           found == kind # "none" /\ src \in DOMAIN fs
           skipped == found /\ is_relative_to_session_folder(kind)
           moved == found /\ ~skipped
           after_move == IF moved THEN move_file_to_session(fs, src) ELSE fs
       IN /\ moved_files' = IF found THEN <<MovedName>> ELSE <<>>
          /\ moved_at' = IF found THEN <<cwd \o MovedName>> ELSE <<>>
          /\ fs' = log_to_proc_md(after_move)
    /\ dirs' = Mkdir(TrackerFolder)
    /\ cwd' = original_cwd[MergeTask]
    /\ original_cwd' = [original_cwd EXCEPT ![MergeTask] = NoPath]
    /\ tracker_pc' = "cli_done"
    /\ UNCHANGED <<smVars, catalog, botVars, files_out, scan_base, runs,
                   before_snapshot, file_changes, fs_before, writes, pc, call,
                   process, stdout_pipe, stderr_pipe, readers, result, out,
                   emitted, cb_log, outcome, cwd_before>>

\* _send_message_via_cli, any other outcome: no "moved_files" in the result
merge_failure ==
    /\ tracker_pc = "in_cli"
    /\ moved_files' = <<>>
    /\ moved_at' = <<>>
    /\ cwd' = original_cwd[MergeTask]
    /\ original_cwd' = [original_cwd EXCEPT ![MergeTask] = NoPath]
    /\ tracker_pc' = "cli_done"
    /\ UNCHANGED <<smVars, catalog, dirs, botVars, files_out, scan_base, runs, fs,
                   before_snapshot, file_changes, fs_before, writes, pc, call,
                   process, stdout_pipe, stderr_pipe, readers, result, out,
                   emitted, cb_log, outcome, cwd_before>>

\* generate_code: take_after_snapshot
generate_code_take_after_snapshot ==
    /\ tracker_pc = "cli_done"
    /\ FileChangeTracker_take_after_snapshot
    /\ scan_base' = ScanBase
    /\ UNCHANGED <<storeVars, proxyVars, botVars, moved_files, moved_at,
                   files_out, runs>>

\* generate_code: created_detected after the loop over moved_files
MergedCreated(changes, moved) ==
    LET all_detected_files == Range(changes.all) \cup Range(moved)
    IN Range(changes.created)
           \cup {m \in Range(moved) : m \notin all_detected_files}

\* generate_code: all_detected_files
MergedAll(changes, moved) == Range(changes.all) \cup Range(moved)

\* generate_code: the "files" of the returned dict
generate_code_merge ==
    /\ tracker_pc = "after_taken"
    /\ files_out' = [created |-> MergedCreated(file_changes, moved_files),
                     modified |-> Range(file_changes.modified),
                     all |-> MergedAll(file_changes, moved_files)]
    /\ tracker_pc' = "merged"
    /\ UNCHANGED <<storeVars, proxyVars, botVars, moved_files, moved_at,
                   scan_base, runs, fs, before_snapshot, file_changes,
                   fs_before, writes>>

\* generate_code returns; the next task operation builds a new tracker
generate_code_return ==
    /\ tracker_pc = "merged"
    /\ runs' = runs + 1
    /\ moved_files' = <<>>
    /\ moved_at' = <<>>
    /\ files_out' = NoFiles
    /\ scan_base' = NoPath
    /\ before_snapshot' = EmptyMap
    /\ file_changes' = NoChanges
    /\ fs_before' = EmptyMap
    /\ tracker_pc' = "new"
    /\ UNCHANGED <<storeVars, proxyVars, botVars, fs, writes>>

\* the tracked task operation is suspended in an await: between
\* generate_code calls, in create_session, or while the child runs.  From
\* the return code of the child to the returned dict there is no await
\* before the walk of the after-snapshot has begun.
MergeSuspended == tracker_pc \in {"new", "before_taken", "in_cli"}

\* the other invocation enters _send_message_via_cli ...
other_enter_cli ==
    /\ MergeSuspended
    /\ original_cwd[OtherTask] = NoPath
    /\ runs < MaxRuns
    /\ Len(cwd) <= MaxOtherDepth
    /\ dirs' = Mkdir(SessionFolderPath(OtherSession))
    /\ original_cwd' = [original_cwd EXCEPT ![OtherTask] = cwd]
    /\ cwd' = cwd \o SessionFolderPath(OtherSession)
    /\ UNCHANGED <<smVars, catalog, botVars, trackerVars, pc, call, process,
                   stdout_pipe, stderr_pipe, readers, result, out, emitted,
                   cb_log, outcome, cwd_before>>

\* ... and leaves it: finally os.chdir(original_cwd)
other_leave_cli ==
    /\ MergeSuspended
    /\ original_cwd[OtherTask] # NoPath
    /\ cwd' = original_cwd[OtherTask]
    /\ original_cwd' = [original_cwd EXCEPT ![OtherTask] = NoPath]
    /\ UNCHANGED <<smVars, catalog, dirs, botVars, trackerVars, pc, call,
                   process, stdout_pipe, stderr_pipe, readers, result, out,
                   emitted, cb_log, outcome, cwd_before>>

NextMerge ==
    \/ generate_code_take_before_snapshot
    \/ merge_enter_cli
    \/ \E content \in {"v1", "v2"} : agent_writes(content)
    \/ \E kind \in ReportKinds : merge_success(kind)
    \/ merge_failure
    \/ generate_code_take_after_snapshot
    \/ generate_code_merge
    \/ generate_code_return
    \/ other_enter_cli
    \/ other_leave_cli

SpecMerge == Init /\ [][NextMerge]_vars

(***************************************************************************)
(* core/archive_utils.py: ArchiveCreator.create_session_archive.  A        *)
(* candidate is what the loop finds at session_folder / rel_path: whether  *)
(* it exists, its size in bytes, and whether zipf.write can read it.  The  *)
(* method has no await: the event loop runs it from call to return.        *)
(***************************************************************************)
MAX_ARCHIVE_SIZE == 45 * 1024 * 1024
MaxCandidates == 3

\* sizes around the cap, and around the largest size that still fits
\* after a file of 30 MB
FileSizes == {1, 31457280, 31457281, MAX_ARCHIVE_SIZE, MAX_ARCHIVE_SIZE + 1}

Candidate(exists, size, readable) ==
    [exists |-> exists, size |-> size, readable |-> readable]

Candidates ==
    {Candidate(FALSE, 0, FALSE), Candidate(TRUE, 1, FALSE)}
        \cup {Candidate(TRUE, size, TRUE) : size \in FileSizes}

CandidateLists ==
    UNION {[1..n -> Candidates] : n \in 0..MaxCandidates}

\* mutant of FileTooLarge: no file is too large
FileNeverTooLarge(file_size) == FALSE

\* file_size > ArchiveCreator.MAX_ARCHIVE_SIZE
FileTooLarge(file_size) == file_size > MAX_ARCHIVE_SIZE

\* mutant of estimated_archive_size: the whole size of the next file
estimated_archive_size_whole(total_size, file_size) == total_size + file_size

\* total_size + (file_size // 2)
estimated_archive_size(total_size, file_size) ==
    total_size + (file_size \div 2)

\* the for loop from its i-th candidate on, with the entries written and
\* total_size so far: the entries when the loop is left
RECURSIVE ArchiveLoop(_, _, _, _)
ArchiveLoop(paths, i, entries, total_size) ==
    IF i > Len(paths) THEN entries
    ELSE IF ~paths[i].exists
         THEN ArchiveLoop(paths, i + 1, entries, total_size)
    ELSE IF FileTooLarge(paths[i].size)
         THEN ArchiveLoop(paths, i + 1, entries, total_size)
    ELSE IF estimated_archive_size(total_size, paths[i].size)
               > MAX_ARCHIVE_SIZE
         THEN entries
    ELSE IF ~paths[i].readable
         THEN ArchiveLoop(paths, i + 1, entries, total_size)
    ELSE ArchiveLoop(paths, i + 1, Append(entries, i),
                     total_size + paths[i].size)

create_session_archive(paths) ==
    LET entries == IF paths = <<>> THEN <<>>
                   ELSE ArchiveLoop(paths, 1, <<>>, 0)
    IN /\ file_paths' = paths
       /\ zip_entries' = entries
       /\ archive_result' =
             IF entries = <<>> THEN NoArchive
             ELSE [zip_buffer |-> "zip", file_count |-> Len(entries)]

NextArchive ==
    /\ \E paths \in CandidateLists : create_session_archive(paths)
    /\ UNCHANGED <<storeVars, proxyVars, fsm, handler, sendVars, fs,
                   before_snapshot, file_changes, fs_before, tracker_pc,
                   writes, mergeVars, fsm_data, created_by, editVars>>

SpecArchive == Init /\ [][NextArchive]_vars

(***************************************************************************)
(* bot/handlers: send_files_to_user (coding.py) and send_session_files     *)
(* (session.py).  The paths of "all" are given by their number and by what *)
(* lies at them on disk (all present, all missing, all of 30 MB + 1).      *)
(***************************************************************************)
MaxFiles == 12

\* settings.max_files_before_archive, and other values it is set to
max_files_before_archive == 10
Thresholds == {5, max_files_before_archive, 12}

SendEntries == {"send_files_to_user", "send_session_files"}
FileProfiles == {"present", "missing", "large"}

FilesOf(n, profile) ==
    [i \in 1..n |->
        CASE profile = "present" -> Candidate(TRUE, 1, TRUE)
          [] profile = "large" -> Candidate(TRUE, 31457281, TRUE)
          [] OTHER -> Candidate(FALSE, 0, FALSE)]

\* create_individual_files_list: of the first max_files = 10 paths, those
\* that exist and are not above the cap
create_individual_files_list(paths) ==
    Cardinality({i \in 1..Len(paths) :
                    /\ i <= 10
                    /\ paths[i].exists
                    /\ ~FileTooLarge(paths[i].size)})

\* mutant of SendsIndividually: the threshold itself goes to the archive
SendsIndividuallyBelow(count, threshold) == count < threshold

\* len(all_files) <= settings.max_files_before_archive
SendsIndividually(count, threshold) == count <= threshold

send_files(entry, n, threshold, profile) ==
    LET all_files == FilesOf(n, profile)
    IN /\ send_args' = [entry |-> entry, all |-> n, threshold |-> threshold,
                        profile |-> profile]
       /\ IF all_files = <<>>
          THEN /\ send_path' = "none"
               /\ files_to_send' = 0
               /\ UNCHANGED archiveVars
          ELSE IF SendsIndividually(Len(all_files), threshold)
          THEN /\ send_path' = "individual"
               /\ files_to_send' = create_individual_files_list(all_files)
               /\ UNCHANGED archiveVars
          ELSE /\ send_path' = "archive"
               /\ files_to_send' = 0
               /\ create_session_archive(all_files)

NextSend ==
    /\ \E entry \in SendEntries, n \in 0..MaxFiles, threshold \in Thresholds,
          profile \in FileProfiles :
          send_files(entry, n, threshold, profile)
    /\ UNCHANGED <<storeVars, proxyVars, fsm, handler, fs, before_snapshot,
                   file_changes, fs_before, tracker_pc, writes, mergeVars,
                   fsm_data, created_by, editVars>>

SpecSend == Init /\ [][NextSend]_vars

(***************************************************************************)
(* Provider and model selection (bot/handlers/providers.py): the two       *)
(* inline-keyboard callbacks and the two commands.  Each fetches the       *)
(* agent's catalog, validates against it and saves the preference.         *)
(***************************************************************************)
ProviderEntries == {"callback_provider_selection", "cmd_setprovider"}
ModelEntries == {"callback_model_selection", "cmd_setmodel"}

\* mutant of provider_info: any listed provider, connected or not
provider_info_listed(providers_data, provider_id) ==
    {i \in 1..Len(providers_data.all) :
        /\ providers_data.all[i].id = provider_id
        /\ \A j \in 1..(i - 1) : providers_data.all[j].id # provider_id}

\* the positions of the entry the validation loop stops at: the first entry
\* of "all" with this id that is also in "connected" (none: the empty set)
provider_info(providers_data, provider_id) ==
    {i \in 1..Len(providers_data.all) :
        /\ providers_data.all[i].id = provider_id
        /\ provider_id \in Range(providers_data.connected)
        /\ \A j \in 1..(i - 1) : providers_data.all[j].id # provider_id}

ModelsOf(providers_data, provider_id) ==
    LET i == CHOOSE k \in provider_info(providers_data, provider_id) : TRUE
    IN providers_data.all[i].models

\* what session_manager.set_user_preference leaves in the store
SavedPreference(user_id, provider_id, model_id) ==
    (user_id :> [PrefsOf(user_id) EXCEPT
                    !.keys = @ \cup {"provider_id", "model_id"},
                    !.provider_id = provider_id,
                    !.model_id = model_id]) @@ user_preferences

SelectionAnswer(entry, user_id, provider_id, model_id, answer) ==
    [op |-> entry, user |-> user_id,
     arg |-> [provider_id |-> provider_id, model_id |-> model_id,
              providers_data |-> get_providers],
     value |-> answer]

\* callback_provider_selection and cmd_setprovider: the provider's first
\* model becomes the model
select_provider(entry, user_id, provider_id) ==
    LET providers_data == get_providers
    IN /\ IF provider_info(providers_data, provider_id) = {}
          THEN /\ ret' = SelectionAnswer(entry, user_id, provider_id, "",
                                         "not available")
               /\ UNCHANGED user_preferences
          ELSE IF ModelsOf(providers_data, provider_id) = <<>>
          THEN /\ ret' = SelectionAnswer(entry, user_id, provider_id, "",
                                         "no models")
               /\ UNCHANGED user_preferences
          ELSE LET model_id == Head(ModelsOf(providers_data, provider_id))
               IN /\ user_preferences' =
                        SavedPreference(user_id, provider_id, model_id)
                  /\ ret' = SelectionAnswer(entry, user_id, provider_id,
                                            model_id, "selected")
       /\ UNCHANGED <<sessions, active_sessions, catalog, cwd, dirs, created>>

\* callback_model_selection and cmd_setmodel
select_model(entry, user_id, provider_id, model_id) ==
    LET providers_data == get_providers
    IN /\ IF provider_info(providers_data, provider_id) = {}
          THEN /\ ret' = SelectionAnswer(entry, user_id, provider_id,
                                         model_id, "not available")
               /\ UNCHANGED user_preferences
          ELSE IF model_id \notin Range(ModelsOf(providers_data, provider_id))
          THEN /\ ret' = SelectionAnswer(entry, user_id, provider_id,
                                         model_id, "model not found")
               /\ UNCHANGED user_preferences
          ELSE /\ user_preferences' =
                     SavedPreference(user_id, provider_id, model_id)
               /\ ret' = SelectionAnswer(entry, user_id, provider_id,
                                         model_id, "selected")
       /\ UNCHANGED <<sessions, active_sessions, catalog, cwd, dirs, created>>

(***************************************************************************)
(* SpecPrefs: the preference methods of the store and the default-provider *)
(* lookup, while the agent's catalog changes.                              *)
(***************************************************************************)
NextPrefs ==
    /\ \/ \E u \in Users, provider_id \in ProviderIds, model_id \in ModelIds :
             set_user_preference(u, provider_id, model_id)
       \/ \E u \in Users : get_user_preference(u)
       \/ \E u \in Users, enabled \in BOOLEAN :
             set_thinking_preference(u, enabled)
       \/ \E u \in Users : get_thinking_preference(u)
       \/ call_get_default_provider
       \/ CatalogChange
    /\ UNCHANGED <<proxyVars, botVars, trackerVars>>

SpecPrefs == Init /\ [][NextPrefs]_vars

(***************************************************************************)
(* SpecSelect: the selection handlers while the agent's catalog changes.   *)
(***************************************************************************)
NextSelect ==
    /\ \/ \E entry \in ProviderEntries, u \in Users, provider_id \in ProviderIds :
             select_provider(entry, u, provider_id)
       \/ \E entry \in ModelEntries, u \in Users, provider_id \in ProviderIds,
             model_id \in ModelIds :
             select_model(entry, u, provider_id, model_id)
       \/ CatalogChange
    /\ UNCHANGED <<proxyVars, botVars, trackerVars>>

SpecSelect == Init /\ [][NextSelect]_vars

(***************************************************************************)
(* bot/handlers: the debug, refactor and ask flows and /cancel.  Each      *)
(* handler is one step up to the await of the task operation; what it      *)
(* answers is kept in ret.                                                 *)
(***************************************************************************)
NeedSessionAnswer == "You need an active session. Use /newsession"
SessionExpiredAnswer == "Session expired. Use /newsession"
SessionNotFoundAnswer == "Session not found"
CodeNotFoundAnswer == "Code not found. Please start over"
TryAgainAnswer == "Please try again"
AskedAnswer == "asked for the next input"
InvokingAnswer == "Please wait."

Answer(name, u, text) ==
    ret' = [op |-> name, user |-> u, arg |-> None, value |-> text]

SetState(u, state_name) == fsm' = [fsm EXCEPT ![u] = state_name]

UpdateData(u, keys) == fsm_data' = [fsm_data EXCEPT ![u] = @ \cup keys]

\* state.clear(): the state and the data
StateClear(u) ==
    /\ fsm' = [fsm EXCEPT ![u] = None]
    /\ fsm_data' = [fsm_data EXCEPT ![u] = {}]

\* what a handler that answers locally leaves alone
LocalFrame ==
    UNCHANGED <<sessions, active_sessions, user_preferences, created,
                catalog, cwd, dirs, proxyVars, handler, filesVars>>

\* mutant of active_session_is_None: the guard never fires
active_session_never_None(user_id) == FALSE

\* `active_session is None` after get_active_session(user_id)
active_session_is_None(user_id) == ~HasActiveSession(user_id)

\* active_session['id'] (read only after the guard)
session_id_of(user_id) ==
    IF HasActiveSession(user_id) THEN ActiveSessionOf(user_id).id ELSE 0

\* get_user_preference, the status message, and the call of the task
\* operation `op` with what get_user_preference returned
call_task_operation(name, u, op) ==
    /\ SomeTaskFree
    /\ task_operation(FreeTask, session_id_of(u),
          [op |-> op,
           provider_id |-> UserPreferenceOf(u).provider_id,
           model_id |-> UserPreferenceOf(u).model_id,
           thinking_callback |-> "ok"])
    /\ handler' = [handler EXCEPT ![FreeTask] = [name |-> name, user |-> u]]
    /\ Answer(name, u, InvokingAnswer)
    /\ UNCHANGED <<sessions, active_sessions, user_preferences, created,
                   catalog, filesVars>>

\* /debug
cmd_debug(u, has_code) ==
    /\ IF active_session_is_None(u)
       THEN /\ Answer("cmd_debug", u, NeedSessionAnswer)
            /\ UNCHANGED <<fsm, fsm_data>>
       ELSE IF has_code
       THEN /\ UpdateData(u, {"debug_code"})
            /\ SetState(u, "DebugStates:waiting_for_error")
            /\ Answer("cmd_debug", u, AskedAnswer)
       ELSE /\ SetState(u, "DebugStates:waiting_for_code")
            /\ Answer("cmd_debug", u, AskedAnswer)
            /\ UNCHANGED fsm_data
    /\ LocalFrame

process_debug_code(u, has_code) ==
    /\ fsm[u] = "DebugStates:waiting_for_code"
    /\ IF ~has_code
       THEN /\ Answer("process_debug_code", u, TryAgainAnswer)
            /\ UNCHANGED <<fsm, fsm_data>>
       ELSE /\ UpdateData(u, {"debug_code"})
            /\ SetState(u, "DebugStates:waiting_for_error")
            /\ Answer("process_debug_code", u, AskedAnswer)
    /\ LocalFrame

process_debug_error(u, has_text) ==
    /\ fsm[u] = "DebugStates:waiting_for_error"
    /\ IF ~has_text
       THEN /\ Answer("process_debug_error", u, TryAgainAnswer)
            /\ UNCHANGED <<fsm, fsm_data>>
            /\ LocalFrame
       ELSE IF "debug_code" \notin fsm_data[u]
       THEN /\ Answer("process_debug_error", u, CodeNotFoundAnswer)
            /\ StateClear(u)
            /\ LocalFrame
       ELSE IF active_session_is_None(u)
       THEN /\ Answer("process_debug_error", u, SessionExpiredAnswer)
            /\ StateClear(u)
            /\ LocalFrame
       ELSE /\ call_task_operation("process_debug_error", u, "debug_code")
            /\ UNCHANGED <<fsm, fsm_data>>

\* the body of process_refactor_code, entered from `name`
process_refactor_code(name, u, data) ==
    IF "refactor_code" \notin data
    THEN /\ Answer(name, u, CodeNotFoundAnswer)
         /\ StateClear(u)
         /\ LocalFrame
    ELSE IF active_session_is_None(u)
    THEN /\ Answer(name, u, SessionExpiredAnswer)
         /\ StateClear(u)
         /\ LocalFrame
    ELSE /\ call_task_operation(name, u, "refactor_code")
         /\ fsm_data' = [fsm_data EXCEPT ![u] = data]
         /\ UNCHANGED fsm

\* /refactor [focus]
cmd_refactor(u, has_code, has_focus) ==
    IF active_session_is_None(u)
    THEN /\ Answer("cmd_refactor", u, NeedSessionAnswer)
         /\ UNCHANGED <<fsm, fsm_data>>
         /\ LocalFrame
    ELSE IF has_code /\ has_focus
    THEN process_refactor_code("cmd_refactor", u,
            fsm_data[u] \cup {"refactor_code", "refactor_focus"})
    ELSE IF has_code
    THEN /\ UpdateData(u, {"refactor_code"})
         /\ SetState(u, "RefactorStates:waiting_for_focus")
         /\ Answer("cmd_refactor", u, AskedAnswer)
         /\ LocalFrame
    ELSE /\ UpdateData(u, IF has_focus THEN {"refactor_focus"} ELSE {})
         /\ SetState(u, "RefactorStates:waiting_for_code")
         /\ Answer("cmd_refactor", u, AskedAnswer)
         /\ LocalFrame

process_refactor_code_input(u, has_code) ==
    /\ fsm[u] = "RefactorStates:waiting_for_code"
    /\ IF ~has_code
       THEN /\ Answer("process_refactor_code_input", u, TryAgainAnswer)
            /\ UNCHANGED <<fsm, fsm_data>>
            /\ LocalFrame
       ELSE IF "refactor_focus" \in fsm_data[u]
       THEN process_refactor_code("process_refactor_code_input", u,
               fsm_data[u] \cup {"refactor_code"})
       ELSE /\ UpdateData(u, {"refactor_code"})
            /\ SetState(u, "RefactorStates:waiting_for_focus")
            /\ Answer("process_refactor_code_input", u, AskedAnswer)
            /\ LocalFrame

process_refactor_focus(u, has_text) ==
    /\ fsm[u] = "RefactorStates:waiting_for_focus"
    /\ IF ~has_text
       THEN /\ Answer("process_refactor_focus", u, TryAgainAnswer)
            /\ UNCHANGED <<fsm, fsm_data>>
            /\ LocalFrame
       ELSE process_refactor_code("process_refactor_focus", u,
               fsm_data[u] \cup {"refactor_focus"})

\* the body of process_question_with_opencode, entered from `name`
process_question_with_opencode(name, u, data) ==
    IF active_session_is_None(u)
    THEN /\ Answer(name, u, SessionNotFoundAnswer)
         /\ StateClear(u)
         /\ LocalFrame
    ELSE /\ call_task_operation(name, u, "generate_code")
         /\ fsm_data' = [fsm_data EXCEPT ![u] = data]
         /\ UNCHANGED fsm

\* /ask [code]
cmd_ask(u, has_code) ==
    /\ IF active_session_is_None(u)
       THEN /\ Answer("cmd_ask", u, NeedSessionAnswer)
            /\ UNCHANGED <<fsm, fsm_data>>
       ELSE /\ UpdateData(u, IF has_code THEN {"question_code"} ELSE {})
            /\ SetState(u, "QuestionStates:waiting_for_question")
            /\ Answer("cmd_ask", u, AskedAnswer)
    /\ LocalFrame

process_question_code(u, has_code) ==
    /\ fsm[u] = "QuestionStates:waiting_for_question"
    /\ IF ~has_code
       THEN /\ Answer("process_question_code", u, TryAgainAnswer)
            /\ UNCHANGED fsm_data
       ELSE /\ UpdateData(u, {"question_code"})
            /\ Answer("process_question_code", u, AskedAnswer)
    /\ UNCHANGED fsm
    /\ LocalFrame

QuestionCategories == {"custom_question", "explain_code"}

\* a button of the category keyboard (a callback query: no state filter)
handle_question_category(u, category_id) ==
    IF "question_code" \notin fsm_data[u]
    THEN /\ Answer("handle_question_category", u, CodeNotFoundAnswer)
         /\ UNCHANGED <<fsm, fsm_data>>
         /\ LocalFrame
    ELSE IF category_id = "custom_question"
    THEN /\ SetState(u, "QuestionStates:waiting_for_followup")
         /\ Answer("handle_question_category", u, AskedAnswer)
         /\ UNCHANGED fsm_data
         /\ LocalFrame
    ELSE process_question_with_opencode("handle_question_category", u,
            fsm_data[u])

process_custom_question(u, has_text) ==
    /\ fsm[u] = "QuestionStates:waiting_for_followup"
    /\ IF ~has_text
       THEN /\ Answer("process_custom_question", u, TryAgainAnswer)
            /\ UNCHANGED <<fsm, fsm_data>>
            /\ LocalFrame
       ELSE IF "question_code" \notin fsm_data[u]
       THEN /\ Answer("process_custom_question", u, CodeNotFoundAnswer)
            /\ StateClear(u)
            /\ LocalFrame
       ELSE process_question_with_opencode("process_custom_question", u,
               fsm_data[u])

\* the tasks in which a handler of user u awaits a task operation
AwaitedBy(u) == {t \in Tasks : handler[t] # NoHandler /\ handler[t].user = u}

\* mutant of cmd_cancel: the user's children are killed as well
cmd_cancel_killing(u) ==
    /\ StateClear(u)
    /\ ret' = [op |-> "cmd_cancel", user |-> u, arg |-> AwaitedBy(u),
               value |-> "Operation cancelled."]
    /\ process' = [t \in Tasks |->
                     IF t \in AwaitedBy(u) /\ Running(t)
                     THEN [started |-> TRUE, stdout_open |-> FALSE,
                           stderr_open |-> FALSE, returncode |-> 1]
                     ELSE process[t]]
    /\ UNCHANGED <<sessions, active_sessions, user_preferences, created,
                   catalog, cwd, dirs, pc, call, original_cwd, stdout_pipe,
                   stderr_pipe, readers, result, out, emitted, cb_log,
                   outcome, cwd_before, handler, filesVars>>

\* /cancel
cmd_cancel(u) ==
    /\ IF fsm[u] = None
       THEN /\ ret' = [op |-> "cmd_cancel", user |-> u, arg |-> AwaitedBy(u),
                       value |-> "No operation to cancel."]
            /\ UNCHANGED <<fsm, fsm_data>>
       ELSE /\ StateClear(u)
            /\ ret' = [op |-> "cmd_cancel", user |-> u, arg |-> AwaitedBy(u),
                       value |-> "Operation cancelled."]
    /\ LocalFrame

(***************************************************************************)
(* SpecFlows: one user's updates over the five flows that call the agent,  *)
(* /setprovider, /cancel and a catalog that changes.  While a task         *)
(* operation is awaited the only update handled is /cancel.                *)
(***************************************************************************)
Quiet == (\A t \in Tasks : pc[t] = "idle") /\ Len(cwd) <= MaxCwdDepth

\* the catalogs the agent answers with: no provider connected, p1 connected
FlowCatalogs == {c \in Catalogs : Range(c.connected) \subseteq {"p1"}}

FlowsFrame == UNCHANGED <<smVars, catalog, botVars, trackerVars>>

\* the handlers that answer or move the conversation on
ConversationStep(u) ==
    \/ cmd_generate(u)
    \/ \E has_code \in BOOLEAN : cmd_debug(u, has_code)
    \/ \E has_code \in BOOLEAN : process_debug_code(u, has_code)
    \/ \E has_code \in BOOLEAN : cmd_ask(u, has_code)
    \/ \E has_code \in BOOLEAN : process_question_code(u, has_code)

\* the handlers that may call a task operation
InvokingStep(u) ==
    \/ \E has_text \in BOOLEAN : process_generation_prompt(u, has_text)
    \/ handle_text_message(u)
    \/ \E has_text \in BOOLEAN : process_debug_error(u, has_text)
    \/ \E has_code \in BOOLEAN, has_focus \in BOOLEAN :
          cmd_refactor(u, has_code, has_focus)
    \/ \E has_code \in BOOLEAN : process_refactor_code_input(u, has_code)
    \/ \E has_text \in BOOLEAN : process_refactor_focus(u, has_text)
    \/ \E category_id \in QuestionCategories :
          handle_question_category(u, category_id)
    \/ \E has_text \in BOOLEAN : process_custom_question(u, has_text)

NextFlows ==
    \/ \E u \in BotUsers :
          Quiet /\ Len(created) < MaxBotSessions /\ cmd_new_session(u)
    \/ /\ Quiet
       /\ \E u \in BotUsers : select_provider("cmd_setprovider", u, "p1")
       /\ UNCHANGED <<proxyVars, botVars, trackerVars>>
    \/ /\ Quiet
       /\ CatalogChange
       /\ catalog' \in FlowCatalogs
       /\ UNCHANGED <<proxyVars, botVars, trackerVars>>
    \/ \E u \in BotUsers : Quiet /\ ConversationStep(u)
    \/ \E u \in BotUsers : Quiet /\ InvokingStep(u)
    \/ \E u \in Users : cmd_cancel(u)
    \/ \E t \in Tasks : ProxyTaskStep(t)
    \/ \E t \in Tasks : BotChildStep(t) /\ FlowsFrame
    \/ \E t \in Tasks : handler_done(t)

SpecFlows == Init /\ [][NextFlows]_vars

(***************************************************************************)
(* SpecSessions: the session methods of the store, called for several      *)
(* users in any order; created_by keeps who created what.                  *)
(***************************************************************************)
NextSessions ==
    /\ \/ \E u \in Users :
             /\ create_session(u)
             /\ created_by' = Append(created_by, <<u, ret'.value>>)
       \/ /\ \/ \E u \in Users : get_active_session(u)
             \/ \E u \in Users : list_user_sessions(u)
             \/ \E u \in Users, s \in SessionIds : switch_session(u, s)
          /\ UNCHANGED created_by
    /\ UNCHANGED <<proxyVars, fsm, handler, fsm_data, fs, before_snapshot,
                   file_changes, fs_before, tracker_pc, writes, mergeVars,
                   archiveVars, sendVars, editVars>>

SpecSessions == Init /\ [][NextSessions]_vars

(***************************************************************************)
(* The file-edit path: /edit, the content message that follows it, /view   *)
(* (bot/handlers/session.py) and get_file_content / save_file_to_session   *)
(* (core/session_files.py).  A file's content is its sequence of           *)
(* characters.                                                             *)
(***************************************************************************)
EditState == "EditFileStates:waiting_for_content"
EditNames == {"a.py"}
EditContents == {<<"a">>, <<"a", "LF", "b">>}
NoContent == <<"<None>">>

\* f.write in text mode: "\n" becomes os.linesep (POSIX: "\n")
RECURSIVE TextWrite(_)
TextWrite(content) ==
    IF content = <<>> THEN <<>>
    ELSE <<Head(content)>> \o TextWrite(Tail(content))

\* f.read in text mode: "\r\n" and "\r" become "\n"
RECURSIVE TextRead(_)
TextRead(stored) ==
    IF stored = <<>> THEN <<>>
    ELSE IF Head(stored) = "CR"
    THEN IF Len(stored) > 1 /\ stored[2] = "LF"
         THEN <<"LF">> \o TextRead(Tail(Tail(stored)))
         ELSE <<"LF">> \o TextRead(Tail(stored))
    ELSE <<Head(stored)>> \o TextRead(Tail(stored))

\* folder / filename, with get_session_folder's relative folder taken at
\* the working directory of the moment
SessionFile(session_id, filename) ==
    cwd \o SessionFolderPath(session_id) \o <<filename>>

\* mutant of get_file_content: the file is looked up by its name alone
get_file_content_by_name(session_id, filename) ==
    IF \E p \in DOMAIN fs : p[Len(p)] = filename
    THEN TextRead(fs[CHOOSE p \in DOMAIN fs : p[Len(p)] = filename])
    ELSE NoContent

\* session_files.get_file_content: None when there is no such file
get_file_content(session_id, filename) ==
    IF SessionFile(session_id, filename) \in DOMAIN fs
    THEN TextRead(fs[SessionFile(session_id, filename)])
    ELSE NoContent

EditFrame ==
    UNCHANGED <<sessions, active_sessions, user_preferences, created,
                catalog, cwd, proxyVars, handler, fsm_data, before_snapshot,
                file_changes, fs_before, tracker_pc, writes, mergeVars,
                archiveVars, sendVars, created_by>>

\* /view <filename>
cmd_view_file(u, filename) ==
    /\ IF active_session_is_None(u)
       THEN /\ ret' = [op |-> "cmd_view_file", user |-> u,
                       arg |-> <<0, filename>>, value |-> NoContent]
            /\ UNCHANGED dirs
       ELSE /\ dirs' = Mkdir(SessionFolderPath(session_id_of(u)))
            /\ ret' = [op |-> "cmd_view_file", user |-> u,
                       arg |-> <<session_id_of(u), filename>>,
                       value |-> get_file_content(session_id_of(u), filename)]
    /\ UNCHANGED <<fs, fsm, editVars>>
    /\ EditFrame

\* /edit <filename>
cmd_edit_file(u, filename) ==
    /\ IF active_session_is_None(u)
       THEN /\ Answer("cmd_edit_file", u, NeedSessionAnswer)
            /\ UNCHANGED <<dirs, fsm, edit_data>>
       ELSE LET session_id == session_id_of(u)
                content == get_file_content(session_id, filename)
            IN /\ dirs' = Mkdir(SessionFolderPath(session_id))
               /\ edit_data' = [edit_data EXCEPT ![u] =
                     [edit_filename |-> filename,
                      edit_session_id |-> session_id,
                      edit_original_content |->
                          IF content = NoContent
                          THEN @.edit_original_content ELSE content]]
               /\ SetState(u, EditState)
               /\ Answer("cmd_edit_file", u, AskedAnswer)
    /\ UNCHANGED <<fs, last_saved>>
    /\ EditFrame

\* the message that follows /edit; `ok`: open and write raise nothing
process_edit_content(u, new_content, ok) ==
    /\ fsm[u] = EditState
    /\ LET filename == edit_data[u].edit_filename
           session_id == edit_data[u].edit_session_id
           original_content == edit_data[u].edit_original_content
           filepath == SessionFile(session_id, filename)
           Reply(kind, changes) ==
               ret' = [op |-> "process_edit_content", user |-> u,
                       arg |-> <<session_id, filename>>,
                       value |-> [kind |-> kind, changes |-> changes]]
       IN IF new_content = <<>>
          THEN /\ Reply("send text", 0)
               /\ UNCHANGED <<dirs, fs, fsm, editVars>>
          ELSE IF filename = "" \/ session_id = 0
          THEN /\ Reply("data missing", 0)
               /\ SetState(u, None)
               /\ edit_data' = [edit_data EXCEPT ![u] = NoEdit]
               /\ UNCHANGED <<dirs, fs, last_saved>>
          ELSE /\ dirs' = Mkdir(SessionFolderPath(session_id))
               /\ SetState(u, None)
               /\ edit_data' = [edit_data EXCEPT ![u] = NoEdit]
               /\ IF ~ok
                  THEN /\ Reply("failed", 0)
                       /\ UNCHANGED <<fs, last_saved>>
                  ELSE /\ fs' = (filepath :> TextWrite(new_content)) @@ fs
                       /\ last_saved' =
                             (<<session_id, filename>> :> new_content)
                                @@ last_saved
                       /\ IF original_content = NoContent
                          THEN Reply("created", 0)
                          ELSE Reply("updated", Len(new_content)
                                                   - Len(original_content))
    /\ EditFrame

(***************************************************************************)
(* SpecEdit: one user edits and views a file of the active session while   *)
(* an invocation of another handler enters and leaves its session folder.  *)
(***************************************************************************)
NextEdit ==
    \/ \E u \in BotUsers : Len(created) < MaxBotSessions /\ cmd_new_session(u)
    \/ \E u \in BotUsers, filename \in EditNames : cmd_edit_file(u, filename)
    \/ \E u \in BotUsers, new_content \in EditContents \cup {<<>>},
          ok \in BOOLEAN : process_edit_content(u, new_content, ok)
    \/ \E u \in BotUsers, filename \in EditNames : cmd_view_file(u, filename)
    \/ other_enter_cli
    \/ other_leave_cli

SpecEdit == Init /\ [][NextEdit]_vars

(***************************************************************************)
(* The dict a task operation returns (core/opencode_proxy.py,              *)
(* generate_code / debug_code / refactor_code).  A dict is a function on   *)
(* its keys; the result of send_message has the keys of the return         *)
(* statement of _send_message_via_cli that produced it.                    *)
(***************************************************************************)
TaskOperations == {"generate_code", "debug_code", "refactor_code"}

\* dict.get(key, default)
DictGet(d, key, default) == IF key \in DOMAIN d THEN d[key] ELSE default

\* what send_message can return: the success dict (with and without moved
\* files, thinking blocks, response text) and the three error dicts
CliResults ==
    {[response |-> r, thinking |-> th, events |-> <<>>, moved_files |-> m] :
         r \in {<<>>, <<"code">>}, th \in {<<>>, <<"t1">>},
         m \in {<<>>, <<MovedName>>}}
    \cup {[response |-> <<x>>, thinking |-> <<>>, events |-> <<>>,
           error |-> TRUE] :
              x \in {CliFailedPrefix, TimedOutMessage, UnexpectedPrefix}}

\* what take_after_snapshot can leave in file_changes; the initial value
\* stays when there is no tracker or the snapshot raises
TrackedChanges ==
    {NoChanges,
     [created |-> <<MovedName>>, modified |-> <<>>, all |-> <<MovedName>>],
     [created |-> <<>>, modified |-> <<<<"work_place", 1, "old.py">>>>,
      all |-> <<<<"work_place", 1, "old.py">>>>]}

\* mutant: the dict of send_message is returned as it is
DictReturnRaw(session_id, cli_result, changes) == cli_result

\* the return built from a dict result
DictReturn(session_id, cli_result, changes) ==
    LET moved == DictGet(cli_result, "moved_files", <<>>)
        response == DictGet(cli_result, "response", <<>>)
    IN [response |-> IF response = <<>> THEN <<EmptyResponseWarning>>
                     ELSE response,
        files |-> [created |-> MergedCreated(changes, moved),
                   modified |-> Range(changes.modified),
                   all |-> MergedAll(changes, moved)],
        thinking |-> DictGet(cli_result, "thinking", <<>>),
        session_folder |-> SessionFolderPath(session_id),
        telegram_session_id |-> session_id,
        moved_files |-> moved,
        raw_result |-> cli_result]

\* the return built from a result that is no dict
OtherReturn(session_id, changes) ==
    [response |-> <<"No response received">>,
     files |-> changes,
     thinking |-> <<>>,
     session_folder |-> SessionFolderPath(session_id),
     telegram_session_id |-> session_id,
     error |-> TRUE]

\* the value a task operation returns for its inputs and for what
\* create_session, send_message and take_after_snapshot gave it
TaskReturn(session_id, remote_ok, is_dict, cli_result, changes) ==
    IF ~remote_ok THEN RemoteFailedReturn(session_id)
    ELSE IF is_dict THEN DictReturn(session_id, cli_result, changes)
    ELSE OtherReturn(session_id, changes)

task_operation_returns(op, session_id, remote_ok, is_dict, cli_result,
                       changes) ==
    /\ ret' = [op |-> op, user |-> "None", arg |-> session_id,
               value |-> TaskReturn(session_id, remote_ok, is_dict,
                                    cli_result, changes)]
    /\ UNCHANGED <<sessions, active_sessions, user_preferences, created,
                   catalog, cwd, dirs, proxyVars, botVars, trackerVars>>

generate_code_returns(session_id, remote_ok, is_dict, cli_result, changes) ==
    task_operation_returns("generate_code", session_id, remote_ok, is_dict,
                           cli_result, changes)

debug_code_returns(session_id, remote_ok, is_dict, cli_result, changes) ==
    task_operation_returns("debug_code", session_id, remote_ok, is_dict,
                           cli_result, changes)

refactor_code_returns(session_id, remote_ok, is_dict, cli_result, changes) ==
    task_operation_returns("refactor_code", session_id, remote_ok, is_dict,
                           cli_result, changes)

NextResults ==
    \E session_id \in SessionIds, remote_ok \in BOOLEAN, is_dict \in BOOLEAN,
       cli_result \in CliResults, changes \in TrackedChanges :
          \/ generate_code_returns(session_id, remote_ok, is_dict,
                                   cli_result, changes)
          \/ debug_code_returns(session_id, remote_ok, is_dict, cli_result,
                                changes)
          \/ refactor_code_returns(session_id, remote_ok, is_dict,
                                   cli_result, changes)

SpecResults == Init /\ [][NextResults]_vars

(***************************************************************************)
(* core/session_files.py: publish_to_github.  The function is synchronous: *)
(* nothing else runs between its entry and its return.  `how` is what the  *)
(* environment gives it: a clone that fails, a session folder without      *)
(* files, the push accepted, the push rejected for authentication or for   *)
(* another reason, an exception raised by the push steps, an exception     *)
(* raised by an earlier git step.                                          *)
(***************************************************************************)
PublishOutcomes ==
    {"clone_failed", "no_files", "success", "push_auth", "push_rejected",
     "push_exception", "exception"}

\* the return statements reached after os.chdir(repo)
AfterChdir ==
    {"success", "push_auth", "push_rejected", "push_exception", "exception"}

\* Path("../klavdii_work_place") taken at the working directory `at`
RepoDir(at) ==
    IF at = <<>> \/ at[Len(at)] = ".."
    THEN at \o <<"..", "klavdii_work_place">>
    ELSE SubSeq(at, 1, Len(at) - 1) \o <<"klavdii_work_place">>

\* the working directory when publish_to_github returns: os.chdir(
\* original_cwd) stands before the success return and in the outer
\* except clause only
CwdAfterPublish(at, how) ==
    IF how \in {"push_auth", "push_rejected", "push_exception"}
    THEN RepoDir(at) ELSE at

publish_to_github(session_id, how) ==
    /\ dirs' = Mkdir(SessionFolderPath(session_id))
                  \cup (IF how \in AfterChdir \cup {"no_files"}
                        THEN Prefixes(RepoDir(cwd)
                                        \o SessionFolderPath(session_id))
                        ELSE {})
    /\ cwd' = CwdAfterPublish(cwd, how)
    /\ ret' = [op |-> "publish_to_github", user |-> "None",
               arg |-> session_id,
               value |-> [success |-> how = "success", how |-> how]]
    /\ UNCHANGED <<sessions, active_sessions, user_preferences, created,
                   catalog, proxyVars, botVars, trackerVars>>

NextPublish ==
    \E session_id \in SessionIds, how \in PublishOutcomes :
        publish_to_github(session_id, how)

SpecPublish == Init /\ [][NextPublish]_vars

(***************************************************************************)
(* C5: at most one agent invocation is in flight for a session: while an   *)
(* invocation against a session has not completed, no handler starts a     *)
(* second one against it.                                                  *)
(***************************************************************************)
InFlight(t) == pc[t] \notin {"idle", "returned"}

C5_OneInvocationPerSession ==
    \A t1, t2 \in Tasks :
        (t1 # t2 /\ InFlight(t1) /\ InFlight(t2))
        => call[t1].session_id # call[t2].session_id

(***************************************************************************)
(* C1: the identifiers create_session returns are pairwise distinct, for   *)
(* the same or different users, and right after create_session(u) returns  *)
(* an identifier, get_active_session(u) returns the session with that      *)
(* identifier.                                                             *)
(***************************************************************************)
C1_DistinctAndActive ==
    /\ \A i, j \in 1..Len(created) : i # j => created[i] # created[j]
    /\ ret.op = "create_session" =>
          /\ HasActiveSession(ret.user)
          /\ ActiveSessionOf(ret.user).id = ret.value

\* a user who already had an active session has just created another one,
\* after the other user created one too
C1_Witness ==
    /\ ret.op = "create_session"
    /\ Len(created) = 3
    /\ ret.user \in DOMAIN sessions
    /\ Cardinality(DOMAIN sessions[ret.user]) = 2
    /\ Cardinality(DOMAIN sessions) = 2

(***************************************************************************)
(* C2: a user's active-session pointer is unset or names a session in that *)
(* same user's session set.                                                *)
(***************************************************************************)
C2_ActivePointerValid ==
    \A u \in DOMAIN active_sessions :
        /\ u \in DOMAIN sessions
        /\ active_sessions[u] \in DOMAIN sessions[u]

\* a user was refused a switch onto another user's session
C2_Witness ==
    /\ ret.op = "switch_session"
    /\ ret.value = FALSE
    /\ ret.user \in DOMAIN active_sessions
    /\ \E v \in DOMAIN sessions : v # ret.user /\ ret.arg \in DOMAIN sessions[v]

(***************************************************************************)
(* C3: switch_session(u, id) returns true and points u at id exactly when  *)
(* id is in u's own session set; otherwise it returns false and changes    *)
(* no active pointer, no session set and no preference.                    *)
(***************************************************************************)
C3_SwitchExact ==
    [][\A u \in Users, sid \in SessionIds :
          switch_session(u, sid) =>
             IF u \in DOMAIN sessions /\ sid \in DOMAIN sessions[u]
             THEN /\ ret'.value = TRUE
                  /\ active_sessions'[u] = sid
                  /\ UNCHANGED <<sessions, user_preferences>>
             ELSE /\ ret'.value = FALSE
                  /\ UNCHANGED <<sessions, active_sessions, user_preferences>>
      ]_vars

\* a user with two sessions has switched back to the older one
C3_Witness ==
    /\ ret.op = "switch_session"
    /\ ret.value = TRUE
    /\ Len(created) >= 2
    /\ \E i \in 1..Len(created) :
          /\ created[i] = ret.arg
          /\ \E j \in (i+1)..Len(created) :
                created[j] \in DOMAIN sessions[ret.user]
    /\ active_sessions[ret.user] = ret.arg

(***************************************************************************)
(* C4: when the agent invocation of a task operation fails (non-zero exit, *)
(* timeout, exception during the call), the returned result has            *)
(* error = true.                                                           *)
(***************************************************************************)
C4_ErrorFlagOnFailure ==
    \A t \in Tasks :
        (pc[t] = "returned"
           /\ outcome[t] \in {"nonzero", "timeout", "exception",
                              "launch_failed"})
        => out[t].error = TRUE

(***************************************************************************)
(* C6: every agent invocation eventually reaches a terminal outcome, also  *)
(* when the child never exits or never closes its stdout or stderr.        *)
(***************************************************************************)
C6_InvocationTerminates ==
    \A t \in ProxyTasks : (pc[t] = "gather") ~> (pc[t] = "take_after_snapshot")

(***************************************************************************)
(* C7: for a single invocation of the send pipeline, the working directory *)
(* after the call returns equals the one before the call, on every         *)
(* outcome.                                                                *)
(***************************************************************************)
C7_CwdRestored ==
    \A t \in Tasks :
        (pc[t] \in {"take_after_snapshot", "returned"}
           /\ cwd_before[t] # NoPath)
        => cwd = cwd_before[t]

\* the pipeline has returned after an exception in the read loop, having
\* changed into the session folder before
C7_Witness ==
    \E t \in Tasks :
        /\ pc[t] = "take_after_snapshot"
        /\ outcome[t] = "exception"
        /\ cwd_before[t] = Root
        /\ cwd = Root
        /\ original_cwd[t] = Root

(***************************************************************************)
(* C8: when the invocation exceeds the timeout the pipeline returns        *)
(* error = true with the timed-out message, and that message is not the    *)
(* one of a non-zero exit nor the one of any other exception.              *)
(***************************************************************************)
\* the results of the failure branches: what each one returns
TimedOutResultDistinct ==
    \A t \in Tasks :
        /\ outcome[t] = "timeout" =>
              /\ result[t].error = TRUE
              /\ result[t].response = <<TimedOutMessage>>
        /\ outcome[t] \in {"nonzero", "exception", "launch_failed"} =>
              /\ result[t].error = TRUE
              /\ result[t].response # <<TimedOutMessage>>

\* C8: an invocation whose child runs on without end returns, and what it
\* returns is the timed-out result, distinct from the other failures
C8_TimeoutDistinguished ==
    /\ []TimedOutResultDistinct
    /\ \A t \in ProxyTasks :
          (pc[t] = "gather")
             ~> (~Running(t) \/ outcome[t] \in {"timeout", "exception"})

\* the child closed both pipes and never exited: the timeout has fired
C8_Witness ==
    \E t \in Tasks :
        /\ outcome[t] = "timeout"
        /\ process[t].returncode = -1
        /\ result[t].response = <<TimedOutMessage>>

(***************************************************************************)
(* C9: a stdout line that is no structured record (non-JSON text, or JSON  *)
(* that is not an object) is skipped: the read loop goes on, the           *)
(* invocation does not become an error, and every thinking/text record     *)
(* before and after it is accumulated.                                     *)
(***************************************************************************)
C9_UnparsedLinesSkipped ==
    \A t \in Tasks :
        (emitted[t].unparsed > 0 /\ outcome[t] \in {"success", "exception"})
        => /\ outcome[t] = "success"
           /\ result[t].error = FALSE
           /\ result[t].thinking = emitted[t].thinking
           /\ readers[t].text_responses = emitted[t].text

(***************************************************************************)
(* C10: the thinking callback is invoked exactly once per thinking,        *)
(* reasoning or step-boundary record with non-empty text, in the order the *)
(* child wrote them, never for a record without text; on success the       *)
(* result's thinking list is that sequence.                                *)
(***************************************************************************)
C10_CallbackPerThinkingRecord ==
    \A t \in Tasks :
        (call[t].thinking_callback # "none"
           /\ outcome[t] \in {"success", "nonzero", "timeout", "exception"})
        => /\ cb_log[t] = emitted[t].thinking
           /\ outcome[t] = "success" => result[t].thinking = cb_log[t]

(***************************************************************************)
(* C11: a thinking callback that raises is contained: the read loop goes   *)
(* on, the thinking text is accumulated, later records are processed and   *)
(* delivered, and outcome and result are those of a callback that does not *)
(* raise.                                                                  *)
(***************************************************************************)
\* the task reads a record with thinking text while its callback raises
ReadsThinkingWithRaisingCallback(t) ==
    /\ call[t].thinking_callback = "raises"
    /\ pc[t] = "gather" /\ ~readers[t].stdout_done
    /\ stdout_pipe[t] # <<>>
    /\ ThinkingText(Head(stdout_pipe[t])) # ""
    /\ stdout_pipe'[t] = Tail(stdout_pipe[t])

\* what a raising callback leaves behind in the result of the invocation
RaisingCallbackResult ==
    \A t \in Tasks :
        (call[t].thinking_callback = "raises" /\ emitted[t].unparsed = 0)
        => /\ outcome[t] # "exception"
           /\ readers[t].thinking_blocks = cb_log[t]
           /\ outcome[t] = "success" =>
                 /\ result[t].error = FALSE
                 /\ result[t].thinking = emitted[t].thinking
           /\ (readers[t].stdout_done /\ pc[t] # "idle") =>
                 cb_log[t] = emitted[t].thinking

C11_CallbackRaiseContained ==
    /\ []RaisingCallbackResult
    /\ [][\A t \in Tasks :
            ReadsThinkingWithRaisingCallback(t)
            => /\ pc'[t] = "gather"
               /\ outcome'[t] = outcome[t]
               /\ result'[t] = result[t]
               /\ readers'[t].thinking_blocks =
                     Append(readers[t].thinking_blocks,
                            ThinkingText(Head(stdout_pipe[t])))
               /\ cb_log'[t] = Append(cb_log[t],
                                      ThinkingText(Head(stdout_pipe[t])))]_vars

\* a raising callback was invoked for two records and the invocation
\* succeeded with both thinking texts
C11_Witness ==
    \E t \in Tasks :
        /\ call[t].thinking_callback = "raises"
        /\ outcome[t] = "success"
        /\ Len(cb_log[t]) >= 2
        /\ result[t].thinking = cb_log[t]

(***************************************************************************)
(* C12: in a task operation the steps come in the order before-snapshot,   *)
(* remote session created, child launched, thinking callbacks, one         *)
(* terminal outcome, after-snapshot; no thinking callback is invoked once  *)
(* the terminal outcome has been produced.                                 *)
(***************************************************************************)
\* the order of the suspension points of a task operation
StepOrder ==
    { <<"idle", "take_before_snapshot">>,
      <<"take_before_snapshot", "create_session">>,
      <<"create_session", "returned">>,
      <<"create_session", "get_default_provider">>,
      <<"create_session", "create_subprocess_exec">>,
      <<"get_default_provider", "create_subprocess_exec">>,
      <<"create_subprocess_exec", "gather">>,
      <<"create_subprocess_exec", "take_after_snapshot">>,
      <<"gather", "wait">>,
      <<"gather", "take_after_snapshot">>,
      <<"wait", "take_after_snapshot">>,
      <<"take_after_snapshot", "returned">>,
      <<"returned", "idle">> }

StepsInOrder(t) ==
    /\ pc'[t] # pc[t] => <<pc[t], pc'[t]>> \in StepOrder
    \* a callback is invoked only while the child is launched and no
    \* terminal outcome exists
    /\ (cb_log'[t] # cb_log[t] /\ pc'[t] # "idle")
       => /\ pc[t] = "gather" /\ process[t].started
          /\ outcome[t] = "none"
    \* the terminal outcome is produced once, and is followed by the
    \* after-snapshot when the child was to be launched
    /\ outcome'[t] # outcome[t]
       => \/ /\ outcome[t] = "none"
             /\ pc'[t] = IF outcome'[t] = "remote_failed"
                         THEN "returned" ELSE "take_after_snapshot"
          \/ pc'[t] = "idle"

OutcomeAtItsPlace ==
    \A t \in Tasks :
        /\ pc[t] \in {"gather", "wait"} =>
              outcome[t] = "none" /\ process[t].started
        /\ pc[t] \in {"take_after_snapshot", "returned"} =>
              outcome[t] # "none"
        /\ pc[t] \in {"idle", "take_before_snapshot", "create_session",
                      "get_default_provider", "create_subprocess_exec"} =>
              outcome[t] = "none" /\ cb_log[t] = <<>>

SessionsWhole ==
    \A u \in DOMAIN sessions : \A s \in DOMAIN sessions[u] :
        /\ sessions[u][s].id = s
        /\ sessions[u][s].folder = SessionFolderPath(s)
        /\ Root \o sessions[u][s].folder \in dirs

\* what the readers of sessions return is whole
SessionReadsWhole ==
    /\ \A u \in DOMAIN active_sessions :
          /\ HasActiveSession(u)
          /\ Root \o ActiveSessionOf(u).folder \in dirs
    /\ \A u \in Users : \A r \in SessionsOf(u) : Root \o r.folder \in dirs

\* a preference dict holds both or neither of provider and model, and a
\* pair that one call wrote
PairWhole(prefs) ==
    /\ "provider_id" \in prefs.keys <=> "model_id" \in prefs.keys
    /\ "provider_id" \in prefs.keys =>
          \/ <<prefs.provider_id, prefs.model_id>> \in PreferencePairs
          \/ <<prefs.provider_id, prefs.model_id>> =
                <<get_default_provider.provider_id,
                  get_default_provider.model_id>>

PreferenceReadsWhole ==
    /\ \A u \in Users : PairWhole(UserPreferenceOf(u))
    /\ ret.op = "get_user_preference" => PairWhole(ret.value)

C13_NoTornRead ==
    SessionsWhole /\ SessionReadsWhole /\ PreferenceReadsWhole

\* a reader got the second pair of a user who had written another pair
\* before, while the other user holds the first pair and two sessions
C13_Witness ==
    /\ ret.op = "get_user_preference"
    /\ ret.value.provider_id = "p2" /\ ret.value.model_id = "m2"
    /\ \E u \in Users :
          /\ u # ret.user
          /\ UserPreferenceOf(u).provider_id = "p1"
          /\ Cardinality(SessionsOf(u)) = 2
          /\ HasActiveSession(ret.user)

(***************************************************************************)
(* C14: take_after_snapshot reports as created exactly the tracked files   *)
(* present after and absent before, as modified exactly the tracked files  *)
(* present in both whose content hash differs; a file present in both with *)
(* the same content is in neither list.                                    *)
(***************************************************************************)
\* the elements of a list

\* the files of a folder state that the tracker tracks: not excluded, and
\* readable
Tracked(files) ==
    {rel \in FilesBelow(files, ScanBase) :
        rel \notin ExcludedPaths /\ files[ScanBase \o rel] # Unreadable}

\* the content of the file at a path below the folder
At(files, rel) == files[ScanBase \o rel]

C14_DiffExact ==
    tracker_pc = "after_taken" =>
        /\ Range(file_changes.created) = Tracked(fs) \ Tracked(fs_before)
        /\ Range(file_changes.modified) =
              {rel \in Tracked(fs) \cap Tracked(fs_before) :
                  Md5(At(fs, rel)) # Md5(At(fs_before, rel))}
        /\ \A rel \in Tracked(fs) \cap Tracked(fs_before) :
              At(fs, rel) = At(fs_before, rel) =>
                  /\ rel \notin Range(file_changes.created)
                  /\ rel \notin Range(file_changes.modified)

\* a.py was added, b.py was changed and c.py was left alone between the
\* two snapshots
C14_Witness ==
    /\ tracker_pc = "after_taken"
    /\ file_changes.created = << <<"a.py">> >>
    /\ file_changes.modified = << <<"b.py">> >>
    /\ <<"c.py">> \in Tracked(fs_before) \cap Tracked(fs)
    /\ At(fs, <<"c.py">>) = At(fs_before, <<"c.py">>)

(***************************************************************************)
(* C15: in every result of take_after_snapshot created and modified are    *)
(* disjoint, and all holds exactly the paths of created and modified, each *)
(* once.                                                                   *)
(***************************************************************************)
\* no element of a list occurs twice
NoDuplicates(list) ==
    \A i, j \in 1..Len(list) : list[i] = list[j] => i = j

C15_ResultWellFormed ==
    /\ Range(file_changes.created) \cap Range(file_changes.modified) = {}
    /\ Range(file_changes.all) =
          Range(file_changes.created) \cup Range(file_changes.modified)
    /\ NoDuplicates(file_changes.all)
    /\ Len(file_changes.all) =
          Len(file_changes.created) + Len(file_changes.modified)

\* a result with two created files and a modified one
C15_Witness ==
    /\ tracker_pc = "after_taken"
    /\ Len(file_changes.created) = 2
    /\ Len(file_changes.modified) = 1
    /\ Len(file_changes.all) = 3

(***************************************************************************)
(* C16: in the "files" a task operation returns, every file of the         *)
(* moved-file list that the tracker's diff lacks is among created, and all *)
(* is exactly the union of created and modified.                           *)
(***************************************************************************)
MovedOutsideDiff ==
    {m \in Range(moved_files) : m \notin Range(file_changes.all)}

C16_MovedClassifiedCreated ==
    tracker_pc = "merged" =>
        /\ MovedOutsideDiff \subseteq files_out.created
        /\ files_out.all = files_out.created \cup files_out.modified

C16_Witness ==
    /\ tracker_pc = "merged"
    /\ MovedOutsideDiff # {}
    /\ original_cwd[OtherTask] = NoPath
    /\ scan_base = TrackerFolder

(***************************************************************************)
(* C17: in the "files" a task operation returns, no file stands in all     *)
(* twice: two different entries of all never name the same file on disk,   *)
(* whether the tracker (by a path relative to the folder it walked) or the *)
(* moved-file list (by a path with the session folder in it) named it.     *)
(***************************************************************************)
\* the files on disk that the entry e of all names
NamedFiles(e) ==
    {scan_base \o r : r \in {x \in Range(file_changes.all) : x = e}}
        \cup {moved_at[i] : i \in {j \in 1..Len(moved_files) :
                                      moved_files[j] = e}}

C17_EachFileOnce ==
    tracker_pc = "merged" =>
        /\ Range(file_changes.all) \cup Range(moved_files)
              \subseteq files_out.all
        /\ \A e1, e2 \in files_out.all :
              e1 # e2 => NamedFiles(e1) \cap NamedFiles(e2) = {}

C17_Witness ==
    /\ tracker_pc = "merged"
    /\ \E e \in files_out.all :
          e \in Range(file_changes.all) /\ e \in Range(moved_files)

(***************************************************************************)
(* C18: a file under an excluded directory name, or with an excluded name  *)
(* or extension, is in no snapshot and in none of created, modified, all,  *)
(* also when it was created or changed between the two snapshots.          *)
(***************************************************************************)
ExcludedNames ==
    {"__pycache__", ".git", ".env", ".DS_Store", "Thumbs.db", ".vscode",
     ".idea", "node_modules", ".gitignore", ".gitmodules", ".hg", ".svn",
     ".bzr"}
ExcludedExtensions == {<<".", "pyc">>, <<".", "pyo">>, <<".", "swp">>}

ExcludedByPolicy(rel) ==
    \/ \E i \in 1..Len(rel) : rel[i] \in ExcludedNames
    \/ Suffix(rel[Len(rel)]) \in ExcludedExtensions

\* the paths a snapshot or a diff holds in this state; a snapshot taken in
\* a state is _get_file_hashes of its folder
SnapshotPaths ==
    {relative_to(filepath) : filepath \in DOMAIN before_snapshot}
        \cup {relative_to(filepath) : filepath \in DOMAIN _get_file_hashes(fs)}
DiffPaths ==
    Range(file_changes.created) \cup Range(file_changes.modified)
        \cup Range(file_changes.all)

C18_ExcludedNeverTracked ==
    \A rel \in WritablePaths :
        ExcludedByPolicy(rel) => rel \notin SnapshotPaths \cup DiffPaths

C18_Witness ==
    /\ tracker_pc = "after_taken"
    /\ ScanBase \o <<"x.pyc">> \in DOMAIN fs
    /\ ScanBase \o <<"x.pyc">> \notin DOMAIN fs_before
    /\ ScanBase \o <<"node_modules", "m.js">> \in DOMAIN fs_before
    /\ ScanBase \o <<"node_modules", "m.js">> \in DOMAIN fs
    /\ fs[ScanBase \o <<"node_modules", "m.js">>]
          # fs_before[ScanBase \o <<"node_modules", "m.js">>]
    /\ file_changes.all # <<>>

(***************************************************************************)
(* C19: a file is in no snapshot and no diff whenever a component of its   *)
(* path below the session folder - a directory name at any depth or the    *)
(* file name - starts with a dot.                                          *)
(***************************************************************************)
StartsWithDot(name) == Head(NameTokens(name)) = "."

HasDotComponent(rel) == \E i \in 1..Len(rel) : StartsWithDot(rel[i])

C19_DotComponentExcluded ==
    \A rel \in WritablePaths :
        HasDotComponent(rel) => rel \notin SnapshotPaths \cup DiffPaths

C19_Witness ==
    /\ tracker_pc = "after_taken"
    /\ ScanBase \o <<".hidden">> \in DOMAIN fs
    /\ ScanBase \o <<".hidden">> \notin DOMAIN fs_before
    /\ ScanBase \o <<".cache", "a.py">> \in DOMAIN fs
    /\ ScanBase \o <<".cache", "a.py">> \notin DOMAIN fs_before

(***************************************************************************)
(* C20: after take_after_snapshot has returned, the stored before-snapshot *)
(* is empty, so a later comparison uses no hash of an earlier invocation:  *)
(* take_after_snapshot called again on the tracker finds nothing modified  *)
(* and reports every tracked file as created.                              *)
(***************************************************************************)
BeforeSnapshotCleared ==
    tracker_pc \in {"after_taken", "merged"} => before_snapshot = EmptyMap

NoStaleComparison ==
    (tracker_pc = "after_taken" /\ tracker_pc' = "after_taken")
    => /\ file_changes'.modified = <<>>
       /\ Range(file_changes'.created) = Tracked(fs)

C20_BeforeSnapshotCleared ==
    []BeforeSnapshotCleared /\ [][NoStaleComparison]_vars

C20_Witness ==
    /\ tracker_pc = "after_taken"
    /\ Tracked(fs_before) # {}
    /\ file_changes.modified # <<>>
    /\ before_snapshot = EmptyMap

(***************************************************************************)
(* C21: create_session_archive adds no file larger than the per-file cap;  *)
(* it skips a path that does not exist or is larger than the cap and goes  *)
(* on with the next one; it returns no archive and count 0 when no         *)
(* candidate qualifies; a returned archive has a count equal to the number *)
(* of files added, at least 1.                                             *)
(***************************************************************************)
Qualifies(f) == f.exists /\ f.size <= MAX_ARCHIVE_SIZE

\* every candidate before the i-th was skipped as missing or too large
OnlySkippedBefore(i) == \A j \in 1..(i - 1) : ~Qualifies(file_paths[j])

C21_ArchiveWithinCap ==
    /\ \A k \in 1..Len(zip_entries) : Qualifies(file_paths[zip_entries[k]])
    /\ \A i \in 1..Len(file_paths) :
          (OnlySkippedBefore(i) /\ Qualifies(file_paths[i])
              /\ file_paths[i].readable)
          => \E k \in 1..Len(zip_entries) : zip_entries[k] = i
    /\ (\A i \in 1..Len(file_paths) : ~Qualifies(file_paths[i]))
          => archive_result = NoArchive
    /\ archive_result.zip_buffer # None
          => /\ archive_result.file_count = Len(zip_entries)
             /\ archive_result.file_count >= 1
    /\ archive_result.zip_buffer = None => archive_result.file_count = 0

\* a missing path and a file above the cap were skipped, the file after
\* them was added
C21_Witness ==
    /\ Len(file_paths) = 3
    /\ ~file_paths[1].exists
    /\ file_paths[2].exists /\ file_paths[2].size > MAX_ARCHIVE_SIZE
    /\ zip_entries = <<3>>
    /\ archive_result.file_count = 1

(***************************************************************************)
(* C22: create_session_archive takes the candidates in input order and     *)
(* adds one only if the sum of the actual sizes of the files added before  *)
(* it, plus half its size rounded down, is at most the total cap; the      *)
(* first candidate that fails this test ends the loop, and no later        *)
(* candidate is added even if it would fit.                                *)
(***************************************************************************)
Added == Range(zip_entries)

RECURSIVE SizeOfAdded(_)
SizeOfAdded(n) ==
    IF n = 0 THEN 0
    ELSE SizeOfAdded(n - 1)
            + (IF n \in Added THEN file_paths[n].size ELSE 0)

\* the i-th candidate passes the total test: total + floor(size / 2) is
\* at most the cap exactly when 2 * total + size is at most 2 * cap + 1
FitsEstimate(i) ==
    2 * SizeOfAdded(i - 1) + file_paths[i].size <= 2 * MAX_ARCHIVE_SIZE + 1

\* the first candidate that reaches the total test and fails it, or 0
FirstOverflow ==
    LET failing == {i \in 1..Len(file_paths) :
                       Qualifies(file_paths[i]) /\ ~FitsEstimate(i)}
    IN IF failing = {} THEN 0
       ELSE CHOOSE i \in failing : \A j \in failing : i <= j

C22_EstimateEndsLoop ==
    /\ \A k \in 1..(Len(zip_entries) - 1) : zip_entries[k] < zip_entries[k + 1]
    /\ \A i \in 1..Len(file_paths) :
          i \in Added
          <=> /\ Qualifies(file_paths[i])
              /\ file_paths[i].readable
              /\ FitsEstimate(i)
              /\ (FirstOverflow = 0 \/ i < FirstOverflow)

\* 30 MB were added, a file of 30 MB + 1 byte failed the test by one byte
\* and the one-byte file after it was not added
C22_Witness ==
    /\ Len(file_paths) = 3
    /\ file_paths[1] = Candidate(TRUE, 31457281, TRUE)
    /\ file_paths[2] = Candidate(TRUE, 31457281, TRUE)
    /\ file_paths[3] = Candidate(TRUE, 1, TRUE)
    /\ zip_entries = <<1>>

(***************************************************************************)
(* C23: for a non-empty "all" the file sender takes exactly one path:      *)
(* individual sends when the number of paths is at most the configured     *)
(* threshold, the archive when it is greater.  With threshold 10, 5 and 10 *)
(* files go individually and 11 files go to the archive.                   *)
(***************************************************************************)
C23_SendPathByThreshold ==
    /\ send_args.all > 0 =>
          /\ send_path \in {"individual", "archive"}
          /\ send_path = "individual" <=> send_args.all <= send_args.threshold
          /\ send_path = "archive" <=> send_args.all > send_args.threshold
    /\ (send_args.threshold = 10 /\ send_args.all \in {5, 10})
          => send_path = "individual"
    /\ (send_args.threshold = 10 /\ send_args.all = 11)
          => send_path = "archive"
    /\ send_args.all = 0 => send_path = "none"

C23_Witness ==
    /\ send_args.threshold = 10
    /\ send_args.all = 11
    /\ send_args.profile = "present"
    /\ send_path = "archive"
    /\ archive_result.file_count = 11

(***************************************************************************)
(* C24: get_default_provider does not raise: with an empty connected set   *)
(* (a failed catalog request included) it returns empty provider and model *)
(* identifiers; otherwise the first identifier of the connected set with   *)
(* the first model key of that provider's catalog entry.                   *)
(***************************************************************************)
\* the catalog entries of a provider, by position in "all"
EntriesOf(c, pid) == {i \in 1..Len(c.all) : c.all[i].id = pid}

ExpectedDefault(c) ==
    IF Len(c.connected) = 0
    THEN [provider_id |-> "", model_id |-> ""]
    ELSE LET pid == c.connected[1]
             entries == EntriesOf(c, pid)
             first == CHOOSE i \in entries : \A j \in entries : i <= j
         IN [provider_id |-> pid,
             model_id |-> IF entries = {} \/ Len(c.all[first].models) = 0
                          THEN ""
                          ELSE c.all[first].models[1]]

C24_DefaultProvider ==
    ret.op = "get_default_provider"
    => /\ ret.value = ExpectedDefault(ret.arg)
       /\ ret.value.provider_id \in {""} \cup Range(ret.arg.connected)
       /\ ret.arg.connected = <<>> =>
             ret.value = [provider_id |-> "", model_id |-> ""]

\* the first connected provider is the second entry of the catalog
C24_Witness ==
    /\ ret.op = "get_default_provider"
    /\ ret.arg.connected = <<"p1">>
    /\ ret.value = [provider_id |-> "p1", model_id |-> "m1"]


(***************************************************************************)
(* C27: get_user_preference(u) returns the live default provider and model *)
(* whenever u never set a provider or model through set_user_preference,   *)
(* including after u set only the thinking flag.                           *)
(***************************************************************************)
\* u never chose a provider or model
NeverSetPreference(u) ==
    u \notin DOMAIN user_preferences
    \/ user_preferences[u].keys \cap {"provider_id", "model_id"} = {}

\* the lookup about to return hands out the default of the current catalog
ReturnsLiveDefault ==
    /\ ret'.value.provider_id = get_default_provider.provider_id
    /\ ret'.value.model_id = get_default_provider.model_id

C27_DefaultUntilSet ==
    [][\A u \in Users :
          get_user_preference(u) /\ NeverSetPreference(u)
          => ReturnsLiveDefault]_vars

\* u set only the thinking flag and a provider is connected: the lookup
\* returned a dict with neither key
C27_Witness ==
    /\ ret.op = "get_user_preference"
    /\ ret.user \in DOMAIN user_preferences
    /\ user_preferences[ret.user].keys = {"show_thinking"}
    /\ catalog.connected = <<"p1">>
    /\ ret.value.keys = {}
    /\ ret.value.provider_id = ""

(***************************************************************************)
(* C28: get_user_preference's fallback leaves the store unchanged, and a   *)
(* later lookup for the same user, after the connected set changed,        *)
(* returns the new default.                                                *)
(***************************************************************************)
C28_FallbackNotStored ==
    [][\A u \in Users :
          get_user_preference(u)
          => /\ user_preferences' = user_preferences
             /\ sessions' = sessions
             /\ active_sessions' = active_sessions
             /\ u \notin DOMAIN user_preferences => ReturnsLiveDefault]_vars

\* the lookup fell back after the connected set had changed from the
\* initial empty one
C28_Witness ==
    /\ ret.op = "get_user_preference"
    /\ ret.user \notin DOMAIN user_preferences
    /\ catalog.connected = <<"p2", "p1">>
    /\ ret.value.provider_id = "p2"
    /\ ret.value.model_id = ""


(***************************************************************************)
(* C25: in every selection operation (provider button, model button,       *)
(* /setprovider, /setmodel) a selection whose provider is not in the       *)
(* connected set, or whose model is not a key of that provider's models,   *)
(* is rejected and the stored preference is unchanged.                     *)
(***************************************************************************)
Connected(provider_id) == \E i \in 1..Len(catalog.connected) :
                             catalog.connected[i] = provider_id

\* model_id is a key of the models of a catalog entry of provider_id
ModelKeyOf(provider_id, model_id) ==
    \E i \in 1..Len(catalog.all) :
       /\ catalog.all[i].id = provider_id
       /\ \E k \in 1..Len(catalog.all[i].models) :
             catalog.all[i].models[k] = model_id

Rejected ==
    /\ ret'.value # "selected"
    /\ user_preferences' = user_preferences

C25_InvalidSelectionRejected ==
    [][/\ \A entry \in ProviderEntries, u \in Users, provider_id \in ProviderIds :
             select_provider(entry, u, provider_id) /\ ~Connected(provider_id)
             => Rejected
       /\ \A entry \in ModelEntries, u \in Users, provider_id \in ProviderIds,
             model_id \in ModelIds :
             /\ select_model(entry, u, provider_id, model_id)
             /\ ~Connected(provider_id) \/ ~ModelKeyOf(provider_id, model_id)
             => Rejected
       /\ \A entry \in ProviderEntries \cup ModelEntries :
             ret'.op = entry /\ ret'.value = "selected" /\ catalog' = catalog
             => /\ Connected(ret'.arg.provider_id)
                /\ ModelKeyOf(ret'.arg.provider_id, ret'.arg.model_id)
                /\ user_preferences'[ret'.user].provider_id
                      = ret'.arg.provider_id
                /\ user_preferences'[ret'.user].model_id
                      = ret'.arg.model_id]_vars

\* a user with a saved preference asked for a listed but unconnected
\* provider and keeps the preference
C25_Witness ==
    /\ ret.op \in ModelEntries
    /\ ret.value = "not available"
    /\ ret.arg.provider_id = "p1"
    /\ ret.arg.providers_data.connected = <<"p2">>
    /\ ret.user \in DOMAIN user_preferences
    /\ user_preferences[ret.user].provider_id = "p1"
    /\ user_preferences[ret.user].model_id = "m1"


(***************************************************************************)
(* C26: in every flow that calls the agent (generate, free-text message,   *)
(* debug, refactor, ask), a stored provider that is not in the connected   *)
(* set at request time is detected before the agent is invoked: no task    *)
(* operation is started with a provider that is not connected.             *)
(***************************************************************************)
\* task t goes from idle into a task operation in this step
Starts(t) == pc[t] = "idle" /\ pc'[t] # "idle"

C26_DisconnectedProviderDetected ==
    [][\A t \in Tasks :
          Starts(t) => \/ call'[t].provider_id = ""
                       \/ Connected(call'[t].provider_id)]_vars

\* debug_code is awaited with provider p1 while p1 is not connected
C26_Witness ==
    \E t \in Tasks :
       /\ handler[t].name = "process_debug_error"
       /\ pc[t] = "take_before_snapshot"
       /\ call[t].provider_id = "p1"
       /\ ~Connected("p1")

(***************************************************************************)
(* C29: in every flow that calls the agent, a request from a user whose    *)
(* active-session pointer is unset is answered locally with an error       *)
(* message; it starts no task operation, so no remote session is created   *)
(* and no child is launched.                                               *)
(***************************************************************************)
PointerUnset(u) == u \notin DOMAIN active_sessions

FlowHandlers ==
    {"cmd_debug", "process_debug_code", "process_debug_error", "cmd_refactor",
     "process_refactor_code_input", "process_refactor_focus", "cmd_ask",
     "process_question_code", "handle_question_category",
     "process_custom_question"}

LocalErrorAnswers ==
    {NeedSessionAnswer, SessionExpiredAnswer, SessionNotFoundAnswer,
     CodeNotFoundAnswer}

C29_NoSessionAnsweredLocally ==
    [][/\ \A t \in Tasks :
             Starts(t) => /\ handler'[t].user \in Users
                          /\ ~PointerUnset(handler'[t].user)
                          /\ call'[t].session_id \in SessionIds
       /\ \A u \in Users :
             /\ PointerUnset(u)
             /\ \/ ConversationStep(u)
                \/ InvokingStep(u)
             => /\ proxyVars' = proxyVars
                /\ handler' = handler
                /\ ret' # ret => /\ ret'.op \in FlowHandlers
                                 /\ ret'.value \in LocalErrorAnswers]_vars

\* /debug from a user who never created a session
C29_Witness ==
    /\ ret.op = "cmd_debug"
    /\ ret.value = NeedSessionAnswer
    /\ PointerUnset(ret.user)
    /\ \A t \in Tasks : pc[t] = "idle" /\ ~process[t].started

SessionTranscript == Root \o TrackerFolder \o <<ProcMd>>

C31_TranscriptInSessionFolder ==
    [][(\E kind \in ReportKinds : merge_success(kind))
       => /\ SessionTranscript \in DOMAIN fs'
          /\ fs'[SessionTranscript] = Appended(fs, SessionTranscript)]_vars

\* a sole invocation has succeeded: its entry lies in a folder of the same
\* name inside the session folder, and the session folder has no transcript
C31_Witness ==
    /\ tracker_pc = "cli_done"
    /\ original_cwd[OtherTask] = NoPath
    /\ cwd = Root
    /\ SessionTranscript \notin DOMAIN fs
    /\ Root \o TrackerFolder \o TrackerFolder \o <<ProcMd>> \in DOMAIN fs
    /\ fs[Root \o TrackerFolder \o TrackerFolder \o <<ProcMd>>] = "log1"


(***************************************************************************)
(* C32: after any sequence of store operations list_user_sessions(u)       *)
(* returns exactly the sessions created so far by create_session(u): none  *)
(* is removed or replaced, none of another user is included.               *)
(***************************************************************************)
\* the identifiers create_session(u) has returned so far
CreatedBy(u) == {created_by[i][2] : i \in {j \in 1..Len(created_by) :
                                              created_by[j][1] = u}}

C32_ListIsWhatUserCreated ==
    /\ \A u \in Users :
          /\ {r.id : r \in SessionsOf(u)} = CreatedBy(u)
          /\ \A r \in SessionsOf(u) : r = SessionRecord(r.id)
          /\ Cardinality(SessionsOf(u)) = Cardinality(CreatedBy(u))
    /\ ret.op = "list_user_sessions"
       => {r.id : r \in ret.value} = CreatedBy(ret.user)

\* u1 lists its two sessions while u2 has one of its own
C32_Witness ==
    /\ ret.op = "list_user_sessions"
    /\ ret.user = "u1"
    /\ Cardinality(ret.value) = 2
    /\ Cardinality(CreatedBy("u2")) = 1


(***************************************************************************)
(* C33: content saved under a name in a session through /edit is what a    *)
(* later read of that name returns; after a re-save the read returns the   *)
(* new content and the reported change is the new length minus the         *)
(* previous length.                                                        *)
(***************************************************************************)
EditKey(u) == <<edit_data[u].edit_session_id, edit_data[u].edit_filename>>

RoundTrip ==
    \A u \in BotUsers, filename \in EditNames :
       /\ ret'.op = "cmd_view_file"
       /\ cmd_view_file(u, filename)
       /\ HasActiveSession(u)
       /\ <<session_id_of(u), filename>> \in DOMAIN last_saved
       => ret'.value = last_saved[<<session_id_of(u), filename>>]

ResaveReported ==
    \A u \in BotUsers, new_content \in EditContents :
       /\ ret'.op = "process_edit_content"
       /\ process_edit_content(u, new_content, TRUE)
       /\ EditKey(u) \in DOMAIN last_saved
       => /\ ret'.value.kind = "updated"
          /\ ret'.value.changes
                = Len(new_content) - Len(last_saved[EditKey(u)])

C33_EditRoundTrip == [][RoundTrip /\ ResaveReported]_vars

\* the file was saved while another invocation had changed the working
\* directory; read after that invocation left, the name is not found
C33_Witness ==
    /\ ret.op = "cmd_view_file"
    /\ ret.arg \in DOMAIN last_saved
    /\ ret.value = NoContent
    /\ cwd = Root


NoneInCli == \A t \in {MergeTask, OtherTask} : original_cwd[t] = NoPath

C35_CwdAfterOverlap == NoneInCli => cwd = Root

\* both invocations have returned and the process is left in the folder
\* of the session whose invocation started first
C35_Witness ==
    /\ NoneInCli
    /\ tracker_pc = "new"
    /\ runs = 1
    /\ cwd = Root \o TrackerFolder


(***************************************************************************)
(* C36: while an invocation is in flight every operation that resolves a   *)
(* session folder from the session id refers to the directory it refers to *)
(* with no invocation in flight, and no session folder is ever created     *)
(* inside another session folder.                                          *)
(***************************************************************************)
\* the directory get_session_folder(sid) denotes now
ResolvedFolder(sid) == cwd \o SessionFolderPath(sid)

C36_FolderResolution ==
    /\ \A sid \in SessionIds :
          ResolvedFolder(sid) = Root \o SessionFolderPath(sid)
    /\ \A s1, s2 \in SessionIds :
          s1 # s2 =>
             Root \o SessionFolderPath(s1) \o SessionFolderPath(s2)
                \notin dirs

\* the folder of session 1 was created inside the folder of session 2
C36_Witness ==
    /\ original_cwd[OtherTask] = Root
    /\ cwd = Root \o SessionFolderPath(OtherSession)
    /\ SessionFolderPath(OtherSession) \o TrackerFolder \in dirs

(***************************************************************************)
(* C37: after publish_to_github returns, on every outcome - success, the   *)
(* push rejected for authentication, the push rejected for another reason, *)
(* an exception during the version-control steps - the working directory   *)
(* of the process is the one it had before the call.                       *)
(***************************************************************************)
C37_PublishRestoresCwd ==
    [][\A session_id \in SessionIds, how \in PublishOutcomes :
          publish_to_github(session_id, how) => cwd' = cwd]_vars

\* the push was rejected for authentication and the process is left in
\* the repository directory
C37_Witness ==
    /\ ret.op = "publish_to_github"
    /\ ret.value.how = "push_auth"
    /\ cwd = RepoDir(Root)


(***************************************************************************)
(* C38: when an invocation ends as timed out, the child process has been   *)
(* terminated before the result is returned: no child is still running     *)
(* once its invocation has its terminal outcome.                           *)
(***************************************************************************)
C38_NoChildAfterTimeout ==
    \A t \in Tasks :
        (outcome[t] = "timeout"
           /\ pc[t] \in {"take_after_snapshot", "returned"})
        => ~Running(t)

\* the task operation has returned the timed-out answer and the child,
\* never signalled, is still running
C38_Witness ==
    \E t \in Tasks :
        /\ pc[t] = "returned"
        /\ outcome[t] = "timeout"
        /\ out[t].response = <<TimedOutMessage>>
        /\ Running(t)


(***************************************************************************)
(* C39: when the remote session cannot be created, the task operation      *)
(* returns error = true with empty created, modified and all lists and an  *)
(* empty thinking list; the child process is never launched and the        *)
(* thinking callback is never invoked.                                     *)
(***************************************************************************)
C39_RemoteFailureReturnsEmpty ==
    \A t \in Tasks :
        outcome[t] = "remote_failed" =>
           /\ pc[t] = "returned"
           /\ out[t].error = TRUE
           /\ "files" \in DOMAIN out[t]
           /\ out[t].files = [created |-> <<>>, modified |-> <<>>,
                              all |-> <<>>]
           /\ out[t].thinking = <<>>
           /\ ~process[t].started
           /\ cb_log[t] = <<>>

\* the caller gave a thinking callback and the remote session failed
C39_Witness ==
    \E t \in Tasks :
        /\ pc[t] = "returned"
        /\ outcome[t] = "remote_failed"
        /\ call[t].thinking_callback # "none"
        /\ out[t].response = <<RemoteFailedMessage>>


(***************************************************************************)
(* C40: whenever the files are sent one by one, every path of "all" that   *)
(* exists and is not above the per-file cap is sent; none is dropped, for  *)
(* every value the threshold is configured to.                             *)
(***************************************************************************)
\* the paths of the last call that exist and are within the cap
Sendable ==
    LET all_files == FilesOf(send_args.all, send_args.profile)
    IN {i \in 1..Len(all_files) :
           all_files[i].exists /\ ~FileTooLarge(all_files[i].size)}

C40_AllSendableSent ==
    send_path = "individual" => files_to_send = Cardinality(Sendable)

\* eleven files, all present and small, with the threshold set to twelve:
\* ten are sent
C40_Witness ==
    /\ send_path = "individual"
    /\ send_args.all = 11
    /\ send_args.threshold = 12
    /\ send_args.profile = "present"
    /\ files_to_send = 10

=============================================================================
